---- MODULE Spec2Model ----
(***************************************************************************)
(* A model of cloud/amazon/iam.py: one run of main() against an AWS IAM    *)
(* account.  Every provider call of the module is one step, so that the    *)
(* order of the calls and the account states in between are observable.    *)
(*                                                                         *)
(* Python values are kept as strings where the code mixes types ("True",   *)
(* "False", "None", names); lists the code only tests for truthiness or    *)
(* iterates are sequences, None and [] both being << >>.                   *)
(***************************************************************************)
EXTENDS Integers, Sequences, FiniteSets, TLC

VARIABLES
    params,    \* module.params, as read in main (540-556)
    pc,        \* position of the run in main and the functions it calls
    lv,        \* the local variables of main, update_user, set_users_groups, ...
    users,     \* the account: user name -> user record, or NoUser
    grps,      \* the account: group name -> group record, or NoGroup
    roles,     \* the account: role name -> role record, or NoRole
    profs,     \* the account: instance profile names
    calls,     \* the provider calls issued so far, in order, with their results
    outcome,   \* what the run reported: exit_json, fail_json, a traceback, or nothing
    faults,    \* transient provider faults the environment may still inject
    start      \* the account as it was when the run began

vars == <<params, pc, lv, users, grps, roles, profs, calls, outcome, faults, start>>

-----------------------------------------------------------------------------
(* Bounds of the model *)

MaxKeyCount == 2      \* largest key_count a request carries
MaxPolicies == 2      \* most inline policies a resource starts with
MaxFaults == 1        \* transient provider faults injected in one run

-----------------------------------------------------------------------------
(* Values *)

None == "None"
PyTrue == "True"
PyFalse == "False"
Unbound == "<unbound>"

B(b) == IF b THEN PyTrue ELSE PyFalse
Truthy(v) == v \notin {None, PyFalse, ""}

UserNames == {"alice", "bob"}
GroupNames == {"g1", "g2"}
RoleNames == {"r1", "r2"}
ProfNames == {"r1", "r2"}
Paths == {"/", "/ops/"}
KeyName == <<"k1", "k2", "k3", "k4", "k5", "k6">>
PolName == <<"p1", "p2", "p3", "p4">>
PolicyNames == {PolName[i] : i \in 1..MaxPolicies}

NoUser == [exists |-> FALSE]
NoGroup == [exists |-> FALSE]
NoRole == [exists |-> FALSE]

Range(s) == {s[i] : i \in 1..Len(s)}
Lower(s) == CASE s = "Active" -> "active" [] s = "Inactive" -> "inactive" [] OTHER -> s
Capitalize(s) ==
    CASE s = "active" -> "Active" [] s = "inactive" -> "Inactive"
      [] s = "create" -> "Create" [] s = "remove" -> "Remove" [] OTHER -> s

(* Provider results.  "ok", or the fault the provider raises. *)
Ok == "ok"
NoSuchUser == "The user with name cannot be found."
NoSuchGroup == "The group with name cannot be found."
NoSuchRole == "The role with name cannot be found."
NoSuchKey == "The Access Key with id cannot be found."
NoSuchProfile == "Instance Profile cannot be found."
NoLoginProfile == "Cannot find Login Profile for User"
PolicyConflict == "Cannot delete entity, must detach all policies first."
OtherConflict == "Cannot delete entity, must remove referenced objects first."
AlreadyExists == "EntityAlreadyExists"
PasswordPolicy == "Password does not conform to the account password policy"
Invalid == "ValidationError"
ServiceFailure == "ServiceFailure"

CannotBeFound(f) == f \in {NoSuchUser, NoSuchGroup, NoSuchRole, NoSuchKey, NoSuchProfile}
MustDetach(f) == f = PolicyConflict

(* The results a call may have: what the account's state determines, or, while
   the environment has faults left, a transient failure instead of a success. *)
Resps(dets) == dets \cup (IF Ok \in dets /\ faults > 0 THEN {ServiceFailure} ELSE {})
Resp(det) == Resps({det})
Spend(f) == IF f = ServiceFailure THEN faults - 1 ELSE faults
Call2(op, who, arg, arg2, f) ==
    [op |-> op, who |-> who, arg |-> arg, arg2 |-> arg2, res |-> f]
Call(op, who, arg, f) == Call2(op, who, arg, "", f)

-----------------------------------------------------------------------------
(* The account *)

User(path, keys, login, groups, inline, managed) ==
    [exists |-> TRUE, path |-> path, keys |-> keys, login |-> login,
     groups |-> groups, inline |-> inline, managed |-> managed]
Group(path, inline, managed) ==
    [exists |-> TRUE, path |-> path, inline |-> inline, managed |-> managed]
Role(path, inline, managed, profiles) ==
    [exists |-> TRUE, path |-> path, inline |-> inline, managed |-> managed,
     profiles |-> profiles]

Key(id, status) == [id |-> id, status |-> status]
KeyIdsOf(u) == [i \in 1..Len(u.keys) |-> u.keys[i].id]
KeyStatusOf(u) == [i \in 1..Len(u.keys) |-> u.keys[i].status]
HasKey(u, id) == \E i \in 1..Len(u.keys) : u.keys[i].id = id
KeysIn(us) == UNION {Range(KeyIdsOf(us[n])) : n \in {m \in UserNames : us[m].exists}}
(* The provider names a new key with an id that was never seen before. *)
UsedKeyIds == KeysIn(users) \cup KeysIn(start.users) \cup Range(params.access_key_ids)
FreshKey == KeyName[CHOOSE i \in 1..Len(KeyName) :
                /\ KeyName[i] \notin UsedKeyIds
                /\ \A j \in 1..(i - 1) : KeyName[j] \in UsedKeyIds]
DropKey(keys, id) == SelectSeq(keys, LAMBDA k : k.id # id)
SetKeyStatus(keys, id, st) ==
    [i \in 1..Len(keys) |-> IF keys[i].id = id THEN Key(id, st) ELSE keys[i]]

ExistingUsers == {n \in UserNames : users[n].exists}
ExistingGroups == {n \in GroupNames : grps[n].exists}
ExistingRoles == {n \in RoleNames : roles[n].exists}

-----------------------------------------------------------------------------
(* The requests and accounts a run starts from.  A case fixes the request and
   the part of the account the request is about; the families below vary the
   fields a path of main reads and leave the others at their defaults. *)

Base ==
    [iam_type |-> "user", state |-> "present", new_name |-> None,
     alice |-> TRUE, bob |-> FALSE,
     path |-> "/", new_path |-> None, upath |-> "/",
     password |-> None, update_password |-> "always", login |-> FALSE,
     key_state |-> None, key_count |-> 1, key_ids |-> << >>, keys |-> << >>,
     groups |-> << >>, ugroups |-> {}, g1 |-> TRUE, g2 |-> TRUE,
     inline |-> {}, managed |-> FALSE,
     r1 |-> FALSE, profiles |-> {}, attached |-> {}]

States == {"present", "absent", "update"}
KeyLists == {<< >>, <<Key("k1", "Active")>>, <<Key("k1", "Inactive")>>,
             <<Key("k1", "Active"), Key("k2", "Inactive")>>}
KeyIdLists == {<< >>, <<"k1">>, <<"k1", "k2">>, <<"k3">>}
GroupLists == {<< >>, <<"g1">>, <<"g2">>, <<"g1", "g2">>, <<"g1", "g1">>}
InlineSets == {{PolName[i] : i \in 1..n} : n \in 0..MaxPolicies}

WithState(S, T) == {[c EXCEPT !.state = t] : c \in S, t \in T}
WithNames(S) ==
    {[c EXCEPT !.new_name = n, !.alice = a, !.bob = b] :
        c \in S, n \in {None, "alice", "bob"}, a \in BOOLEAN, b \in BOOLEAN}
WithPaths(S) ==
    {[c EXCEPT !.path = p, !.new_path = np, !.upath = up] :
        c \in S, p \in Paths, np \in Paths \cup {None}, up \in Paths}
WithPassword(S) ==
    {[c EXCEPT !.password = w, !.update_password = u] :
        c \in S, w \in {None, "good", "weak"}, u \in {"always", "on_create"}}
WithLogin(S) == {[c EXCEPT !.login = l] : c \in S, l \in BOOLEAN}
WithPwd(S) == WithLogin(WithPassword(S))
WithKeyState(S, T) ==
    {[c EXCEPT !.key_state = k, !.key_ids = ids] : c \in S, k \in T, ids \in KeyIdLists}
WithKeyCount(S) ==
    {[c EXCEPT !.key_state = "create", !.key_count = n] : c \in S, n \in 0..MaxKeyCount}
WithKeyRequest(S) == WithKeyState(S, {None, "create", "remove"}) \cup WithKeyCount(S)
WithHeldKeys(S) == {[c EXCEPT !.keys = ks] : c \in S, ks \in KeyLists}
WithKeys(S) == WithHeldKeys(WithKeyRequest(S))
WithGroupList(S) == {[c EXCEPT !.groups = g] : c \in S, g \in GroupLists}
Memberships ==
    {m \in [g2 : BOOLEAN, of : SUBSET GroupNames] : m.g2 \/ "g2" \notin m.of}
WithMembership(S) ==
    {[c EXCEPT !.ugroups = m.of, !.g2 = m.g2] : c \in S, m \in Memberships}
WithGroups(S) == WithMembership(WithGroupList(S))
WithPolicies(S) ==
    {[c EXCEPT !.inline = i, !.managed = m] : c \in S, i \in InlineSets, m \in BOOLEAN}

Changes ==
    {[Base EXCEPT !.state = "update", !.new_name = n, !.new_path = np] :
        n \in {None, "bob"}, np \in {None, "/ops/"}}

UserCases ==
    \* which branch of main runs: names, paths and states
       WithState(WithPaths(WithNames({Base})), States)
    \* deleting a user: everything delete_user and set_users_groups read
    \cup WithPolicies(WithHeldKeys(WithLogin(WithMembership(
            WithState({Base}, {"absent"})))))
    \* creating a user
    \cup {[c EXCEPT !.g2 = e] :
            c \in WithGroupList(WithKeyRequest(WithPassword(
                    {[Base EXCEPT !.alice = FALSE]}))),
            e \in BOOLEAN}
    \* updating a user: each pair of password, keys and groups
    \cup WithKeys(WithPwd({Base}))
    \cup WithGroups(WithPwd({Base}))
    \cup WithGroups(WithKeys({Base}))
    \* updating a user: a rename or a move with each of password, keys and groups
    \cup WithPwd(Changes) \cup WithKeys(Changes) \cup WithGroups(Changes)
    \* access_key_state active and inactive
    \cup WithHeldKeys(WithKeyState(WithState({Base}, States), {"active", "inactive"}))
    \cup WithKeyState(WithState({[Base EXCEPT !.alice = FALSE]}, States),
                      {"active", "inactive"})

\* kind group: the request is about g1; a rename is to g2
GroupBase ==
    [Base EXCEPT !.iam_type = "group", !.ugroups = {}]
WithGroupNames(S) ==
    {[c EXCEPT !.new_name = n, !.g1 = a, !.g2 = b] :
        c \in S, n \in {None, "g1", "g2"}, a \in BOOLEAN, b \in BOOLEAN}
WithMembers(S) ==
    {[c EXCEPT !.ugroups = IF m THEN {"g1"} ELSE {}] : c \in S, m \in BOOLEAN}
\* parameters that only a user may carry
WithUserOnly(S) ==
    {[c EXCEPT !.password = w, !.key_state = k, !.key_ids = ids] :
        c \in S, w \in {None, "good"}, k \in {None, "create", "active"},
        ids \in {<< >>, <<"k1">>}}
GroupCases ==
       WithState(WithPaths(WithGroupNames({GroupBase})), States)
    \cup WithMembers(WithPolicies(WithGroupNames(WithState({GroupBase}, {"absent"}))))
    \cup WithUserOnly(WithState({GroupBase}, States))

\* kind role: the request is about r1
RoleBase ==
    [Base EXCEPT !.iam_type = "role", !.alice = FALSE]
WithRole(S) ==
    {[c EXCEPT !.r1 = r, !.profiles = ps, !.attached = IF r THEN at ELSE {}] :
        c \in S, r \in BOOLEAN, ps \in SUBSET ProfNames, at \in SUBSET ProfNames}
RoleCases ==
       {c \in WithPolicies(WithRole(WithState({RoleBase}, States))) :
            c.attached \subseteq c.profiles}
    \cup WithUserOnly(WithState({RoleBase}, States))

StartUsers(c) ==
    [n \in UserNames |->
        IF n = "alice" /\ c.alice
        THEN IF c.iam_type = "user"
             THEN User(c.upath, c.keys, c.login, c.ugroups, c.inline, c.managed)
             ELSE User("/", << >>, FALSE, c.ugroups, {}, FALSE)
        ELSE IF n = "bob" /\ c.bob
        THEN User("/", << >>, FALSE, {}, {}, FALSE)
        ELSE NoUser]
StartGroups(c) ==
    [n \in GroupNames |->
        IF n = "g1" /\ c.g1
        THEN IF c.iam_type = "group"
             THEN Group(c.upath, c.inline, c.managed) ELSE Group("/", {}, FALSE)
        ELSE IF n = "g2" /\ c.g2 THEN Group("/", {}, FALSE)
        ELSE NoGroup]
StartRoles(c) ==
    [n \in RoleNames |->
        IF n = "r1" /\ c.r1 THEN Role(c.upath, c.inline, c.managed, c.attached)
        ELSE NoRole]
StartProfs(c) == c.profiles
TargetName(type) ==
    CASE type = "user" -> "alice" [] type = "group" -> "g1" [] type = "role" -> "r1"

Request(c) ==
    [iam_type |-> c.iam_type, state |-> c.state,
     name |-> TargetName(c.iam_type), new_name |-> c.new_name,
     path |-> c.path, new_path |-> c.new_path,
     password |-> c.password, update_password |-> c.update_password,
     access_key_state |-> c.key_state, key_count |-> c.key_count,
     access_key_ids |-> c.key_ids, groups |-> c.groups]

NoOutcome == [kind |-> "none", changed |-> None, msg |-> "", data |-> << >>]

Locals ==
    [name |-> None, new_name |-> None, path |-> None, new_path |-> None,
     password |-> None, key_state |-> None, key_ids |-> << >>,
     changed |-> PyFalse, been_updated |-> FALSE, user_exists |-> FALSE,
     orig_user_list |-> {}, orig_group_list |-> {}, orig_role_list |-> {},
     orig_prof_list |-> {},
     \* create_user, update_user, delete_user
     key_qty |-> 0, todo |-> << >>, uname |-> None, current_keys |-> << >>,
     status |-> << >>, c_path |-> None, uchanged |-> PyFalse, name_change |-> FALSE,
     ki |-> 1, kj |-> 1, orig_name |-> Unbound, user_changed |-> PyFalse,
     key_list |-> << >>,
     \* delete_group, delete_role
     pending |-> {},
     \* set_users_groups
     ret |-> "", sg_name |-> None, sg_groups |-> << >>, gi |-> 1,
     new_groups |-> {}, remove_groups |-> {}, sg_changed |-> PyFalse,
     user_groups |-> << >>]

Cases == UserCases \cup GroupCases \cup RoleCases

Init ==
    \E c \in Cases :
        /\ params = Request(c)
        /\ users = StartUsers(c)
        /\ grps = StartGroups(c)
        /\ roles = StartRoles(c)
        /\ profs = StartProfs(c)
        /\ start = [users |-> StartUsers(c), grps |-> StartGroups(c),
                    roles |-> StartRoles(c), profs |-> StartProfs(c)]
        /\ pc = "main"
        /\ lv = Locals
        /\ calls = << >>
        /\ outcome = NoOutcome
        /\ faults = MaxFaults

-----------------------------------------------------------------------------
(* How a run ends *)

Fixed == UNCHANGED <<params, start>>
SameAccount == UNCHANGED <<users, grps, roles, profs>>
NoCall == UNCHANGED <<calls, faults>>

\* module.exit_json(changed=..., ...)
ExitJson(changed, data) ==
    /\ outcome' = [kind |-> "exit", changed |-> changed, msg |-> "", data |-> data]
    /\ pc' = "done"
\* module.fail_json(changed=..., msg=...); changed is None when the call gives none
FailJson(changed, msg) ==
    /\ outcome' = [kind |-> "fail", changed |-> changed, msg |-> msg, data |-> << >>]
    /\ pc' = "done"
\* an exception nothing catches: the interpreter prints a traceback and exits
Traceback(msg) ==
    /\ outcome' = [kind |-> "traceback", changed |-> None, msg |-> msg, data |-> << >>]
    /\ pc' = "done"
\* main returns without having called exit_json or fail_json
FallOffEnd ==
    /\ outcome' = [kind |-> "nothing", changed |-> None, msg |-> "", data |-> << >>]
    /\ pc' = "done"

-----------------------------------------------------------------------------
(* main: parameters and validation, 540-573 *)

ActiveOrInactive(key_state) == key_state \in {"active", "inactive"}

Validate ==
    /\ pc = "main"
    /\ NoCall /\ SameAccount /\ Fixed
    /\ LET key_state == Lower(params.access_key_state)
           type == params.iam_type
       IN  IF Truthy(params.access_key_state) /\ ActiveOrInactive(key_state)
           THEN \* 553 reads key_ids, which 556 has not assigned yet
                /\ Traceback("UnboundLocalError: key_ids")
                /\ UNCHANGED lv
           ELSE IF type # "user" /\ params.password # None
           THEN FailJson(None, "a password is being specified when the iam_type is not user")
                /\ UNCHANGED lv
           ELSE IF type # "user" /\ params.access_key_state # None
           THEN \* 567 asks for 'access_key_id', a parameter that does not exist
                FailJson(None, "the IAM type must be user, when IAM access keys are being modified")
                /\ UNCHANGED lv
           ELSE IF type = "role" /\ params.state = "update"
           THEN FailJson(PyFalse, "iam_type: role, cannot currently be updated")
                /\ UNCHANGED lv
           ELSE /\ lv' = [lv EXCEPT !.name = params.name, !.new_name = params.new_name,
                                    !.path = params.path, !.new_path = params.new_path,
                                    !.password = params.password,
                                    !.key_state = key_state,
                                    !.key_ids = params.access_key_ids]
                /\ pc' = "inventory"
                /\ UNCHANGED outcome

(* main: the inventory snapshot, 588-606 *)
InventoryCalls ==
    <<Call("get_all_groups", "", "", Ok), Call("get_all_users", "", "", Ok),
      Call("list_roles", "", "", Ok), Call("list_instance_profiles", "", "", Ok)>>

Inventory ==
    /\ pc = "inventory"
    /\ SameAccount /\ Fixed
    /\ \E f \in Resp(Ok) :
        /\ faults' = Spend(f)
        /\ IF f = Ok
           THEN /\ calls' = calls \o InventoryCalls
                /\ lv' = [lv EXCEPT !.orig_group_list = ExistingGroups,
                                    !.orig_user_list = ExistingUsers,
                                    !.orig_role_list = ExistingRoles,
                                    !.orig_prof_list = profs]
                /\ pc' = params.iam_type
                /\ UNCHANGED outcome
           ELSE /\ calls' = Append(calls, Call("get_all_groups", "", "", f))
                /\ FailJson(None, f)
                /\ UNCHANGED lv

-----------------------------------------------------------------------------
(* set_users_groups, 347-385 *)

\* 360-363
RemoveGroups(orig_users_groups, groups) == orig_users_groups \ Range(groups)
\* a differ that adds every desired group, held or not
AllDesired(orig_users_groups, groups) == Range(groups)
NewGroups(orig_users_groups, groups) == Range(groups) \ orig_users_groups

\* a reconciliation that removes before it adds
RemoveFirst(orig, add, rem, groups, gi, ret) ==
    IF orig # {}
    THEN IF rem # {} THEN "sg_remove" ELSE IF add # {} THEN "sg_add" ELSE ret
    ELSE IF gi <= Len(groups) THEN "sg_zero" ELSE ret

\* 367-373: where the next call of the reconciliation is, given what is left to do
SgNext(orig, add, rem, groups, gi, ret) ==
    IF orig # {}
    THEN IF add # {} THEN "sg_add" ELSE IF rem # {} THEN "sg_remove" ELSE ret
    ELSE IF gi <= Len(groups) THEN "sg_zero" ELSE ret

\* an exception leaving set_users_groups: main catches it only on the absent path (675)
SgEscapes(f) ==
    IF lv.ret = "du_keys" THEN FailJson(lv.changed, f) ELSE Traceback(f)

\* the call of set_users_groups(module, iam, name, groups, updated, new_name)
EnterSetUsersGroups(l, name, groups, updated, new_name, ret) ==
    [l EXCEPT !.sg_name = IF updated THEN new_name ELSE name,
              !.sg_groups = groups, !.ret = ret, !.gi = 1]

SgFetch ==
    /\ pc = "sg_fetch"
    /\ SameAccount /\ Fixed
    /\ \E f \in Resp(IF users[lv.sg_name].exists THEN Ok ELSE NoSuchUser) :
        /\ faults' = Spend(f)
        /\ calls' = Append(calls, Call("get_groups_for_user", lv.sg_name, "", f))
        /\ IF f = Ok
           THEN LET orig == users[lv.sg_name].groups
                    rem == RemoveGroups(orig, lv.sg_groups)
                    add == NewGroups(orig, lv.sg_groups)
                IN  /\ lv' = [lv EXCEPT !.new_groups = add, !.remove_groups = rem,
                                        !.sg_changed = B(rem # {} \/ add # {})]
                    /\ pc' = SgNext(orig, add, rem, lv.sg_groups, 1, lv.ret)
                    /\ UNCHANGED outcome
           ELSE FailJson(PyFalse, f) /\ UNCHANGED lv

AddFault(g, n) ==
    IF ~grps[g].exists THEN NoSuchGroup ELSE IF ~users[n].exists THEN NoSuchUser ELSE Ok

SgAdd ==
    /\ pc = "sg_add"
    /\ UNCHANGED <<grps, roles, profs>> /\ Fixed
    /\ \E g \in lv.new_groups : \E f \in Resp(AddFault(g, lv.sg_name)) :
        /\ faults' = Spend(f)
        /\ calls' = Append(calls, Call("add_user_to_group", lv.sg_name, g, f))
        /\ IF f = Ok
           THEN /\ users' = [users EXCEPT ![lv.sg_name].groups = @ \cup {g}]
                /\ lv' = [lv EXCEPT !.new_groups = @ \ {g}]
                /\ pc' = SgNext({g}, lv.new_groups \ {g}, lv.remove_groups,
                                lv.sg_groups, 1, lv.ret)
                /\ UNCHANGED outcome
           ELSE SgEscapes(f) /\ UNCHANGED <<users, lv>>

SgRemove ==
    /\ pc = "sg_remove"
    /\ UNCHANGED <<grps, roles, profs>> /\ Fixed
    /\ \E g \in lv.remove_groups : \E f \in Resp(AddFault(g, lv.sg_name)) :
        /\ faults' = Spend(f)
        /\ calls' = Append(calls, Call("remove_user_from_group", lv.sg_name, g, f))
        /\ IF f = Ok
           THEN /\ users' = [users EXCEPT ![lv.sg_name].groups = @ \ {g}]
                /\ lv' = [lv EXCEPT !.remove_groups = @ \ {g}]
                /\ pc' = SgNext({g}, {}, lv.remove_groups \ {g}, lv.sg_groups, 1, lv.ret)
                /\ UNCHANGED outcome
           ELSE SgEscapes(f) /\ UNCHANGED <<users, lv>>

\* 373-379: the user is in no group
SgZero ==
    /\ pc = "sg_zero"
    /\ UNCHANGED <<grps, roles, profs>> /\ Fixed
    /\ LET g == lv.sg_groups[lv.gi] IN
       \E f \in Resp(AddFault(g, lv.sg_name)) :
        /\ faults' = Spend(f)
        /\ calls' = Append(calls, Call("add_user_to_group", lv.sg_name, g, f))
        /\ IF f = NoSuchGroup
           THEN FailJson(PyFalse, "Group doesn't exist") /\ UNCHANGED <<users, lv>>
           ELSE \* any other fault is caught at 376 and dropped
                /\ users' = IF f = Ok
                            THEN [users EXCEPT ![lv.sg_name].groups = @ \cup {g}]
                            ELSE users
                /\ lv' = [lv EXCEPT !.gi = @ + 1]
                /\ pc' = SgNext({}, {}, {}, lv.sg_groups, lv.gi + 1, lv.ret)
                /\ UNCHANGED outcome

-----------------------------------------------------------------------------
(* create_user, 168-191, and its caller, 618-627 *)

LoginCreateFault(n, pwd) ==
    IF ~users[n].exists THEN NoSuchUser
    ELSE IF users[n].login THEN AlreadyExists
    ELSE IF pwd = "weak" THEN PasswordPolicy ELSE Ok
LoginUpdateFault(n, pwd) ==
    IF ~users[n].exists THEN NoSuchUser
    ELSE IF ~users[n].login THEN NoLoginProfile
    ELSE IF pwd = "weak" THEN PasswordPolicy ELSE Ok

\* a creation loop that runs once more than 179 does
CuKeyOneMore(key_qty) ==
    IF lv.key_state = "create" /\ params.key_count # 0 /\ params.key_count >= key_qty
    THEN "cu_key" ELSE "cu_keys"

\* 177-179
CuKeyNext(key_qty) ==
    IF lv.key_state = "create" /\ params.key_count # 0 /\ params.key_count > key_qty
    THEN "cu_key" ELSE "cu_keys"

CuCreate ==
    /\ pc = "cu_create"
    /\ UNCHANGED <<grps, roles, profs>> /\ Fixed
    /\ \E f \in Resp(IF users[lv.name].exists THEN AlreadyExists ELSE Ok) :
        /\ faults' = Spend(f)
        /\ calls' = Append(calls, Call("create_user", lv.name, lv.path, f))
        /\ IF f = Ok
           THEN /\ users' = [users EXCEPT
                              ![lv.name] = User(lv.path, << >>, FALSE, {}, {}, FALSE)]
                /\ lv' = [lv EXCEPT !.changed = PyTrue, !.key_qty = 0]
                /\ pc' = IF lv.password # None THEN "cu_login" ELSE CuKeyNext(0)
                /\ UNCHANGED outcome
           ELSE FailJson(PyFalse, f) /\ UNCHANGED <<users, lv>>

\* a creation that takes the new user back when the password step fails
CuLoginUndo ==
    /\ pc = "cu_login"
    /\ UNCHANGED <<grps, roles, profs, lv>> /\ Fixed
    /\ \E f \in Resp(LoginCreateFault(lv.name, lv.password)) :
        /\ faults' = Spend(f)
        /\ IF f = Ok
           THEN /\ calls' = Append(calls, Call("create_login_profile", lv.name, lv.password, f))
                /\ users' = [users EXCEPT ![lv.name].login = TRUE]
                /\ pc' = CuKeyNext(0)
                /\ UNCHANGED outcome
           ELSE /\ calls' = calls \o <<Call("create_login_profile", lv.name, lv.password, f),
                                       Call("delete_user", lv.name, "", Ok)>>
                /\ users' = [users EXCEPT ![lv.name] = NoUser]
                /\ FailJson(PyFalse, f)

\* 175-176, 187-188
CuLogin ==
    /\ pc = "cu_login"
    /\ UNCHANGED <<grps, roles, profs, lv>> /\ Fixed
    /\ \E f \in Resp(LoginCreateFault(lv.name, lv.password)) :
        /\ faults' = Spend(f)
        /\ calls' = Append(calls, Call("create_login_profile", lv.name, lv.password, f))
        /\ IF f = Ok
           THEN /\ users' = [users EXCEPT ![lv.name].login = TRUE]
                /\ pc' = CuKeyNext(0)
                /\ UNCHANGED outcome
           ELSE FailJson(PyFalse, f) /\ UNCHANGED users

CuKey ==
    /\ pc = "cu_key"
    /\ UNCHANGED <<grps, roles, profs>> /\ Fixed
    /\ \E f \in Resp(IF users[lv.name].exists THEN Ok ELSE NoSuchUser) :
        /\ faults' = Spend(f)
        /\ calls' = Append(calls, Call("create_access_key", lv.name, "", f))
        /\ IF f = Ok
           THEN /\ users' = [users EXCEPT
                              ![lv.name].keys = Append(@, Key(FreshKey, "Active"))]
                /\ lv' = [lv EXCEPT !.key_qty = @ + 1]
                /\ pc' = CuKeyNext(lv.key_qty + 1)
                /\ UNCHANGED outcome
           ELSE FailJson(PyFalse, f) /\ UNCHANGED <<users, lv>>

\* 621-627
CuKeys ==
    /\ pc = "cu_keys"
    /\ SameAccount /\ Fixed
    /\ \E f \in Resp(IF users[lv.name].exists THEN Ok ELSE NoSuchUser) :
        /\ faults' = Spend(f)
        /\ calls' = Append(calls, Call("get_all_access_keys", lv.name, "", f))
        /\ IF f # Ok
           THEN Traceback(f) /\ UNCHANGED lv
           ELSE IF Len(params.groups) > 0
           THEN /\ lv' = EnterSetUsersGroups(
                            [lv EXCEPT !.key_list = KeyIdsOf(users[lv.name])],
                            lv.name, params.groups, lv.been_updated, lv.new_name,
                            "cu_exit")
                /\ pc' = "sg_fetch"
                /\ UNCHANGED outcome
           ELSE /\ ExitJson(lv.changed,
                            [user_meta |-> lv.name, groups |-> << >>,
                             keys |-> KeyIdsOf(users[lv.name])])
                /\ UNCHANGED lv

\* 624-627: (user_groups, changed) = set_users_groups(...)
CuExit ==
    /\ pc = "cu_exit"
    /\ NoCall /\ SameAccount /\ Fixed /\ UNCHANGED lv
    /\ ExitJson(lv.sg_changed,
                [user_meta |-> lv.name, groups |-> lv.sg_groups, keys |-> lv.key_list])

-----------------------------------------------------------------------------
(* delete_user, 194-232, and its caller, 668-679 *)

DuKeyNext(todo) == IF Len(todo) > 0 THEN "du_delkey" ELSE "du_login"

\* 211-212: fail_json leaves the process, so 213-229 never run
DeleteFailed(f) == FailJson(PyFalse, "delete failed")

DuKeys ==
    /\ pc = "du_keys"
    /\ SameAccount /\ Fixed
    /\ \E f \in Resp(IF users[lv.name].exists THEN Ok ELSE NoSuchUser) :
        /\ faults' = Spend(f)
        /\ calls' = Append(calls, Call("get_all_access_keys", lv.name, "", f))
        /\ IF f = Ok
           THEN /\ lv' = [lv EXCEPT !.todo = KeyIdsOf(users[lv.name])]
                /\ pc' = DuKeyNext(KeyIdsOf(users[lv.name]))
                /\ UNCHANGED outcome
           ELSE DeleteFailed(f) /\ UNCHANGED lv

KeyFault(n, id) ==
    IF ~users[n].exists THEN NoSuchUser
    ELSE IF ~HasKey(users[n], id) THEN NoSuchKey ELSE Ok

DuDelKey ==
    /\ pc = "du_delkey"
    /\ UNCHANGED <<grps, roles, profs>> /\ Fixed
    /\ LET key == Head(lv.todo) IN
       \E f \in Resp(KeyFault(lv.name, key)) :
        /\ faults' = Spend(f)
        /\ calls' = Append(calls, Call("delete_access_key", lv.name, key, f))
        /\ IF f = Ok
           THEN /\ users' = [users EXCEPT ![lv.name].keys = DropKey(@, key)]
                /\ lv' = [lv EXCEPT !.todo = Tail(@)]
                /\ pc' = DuKeyNext(Tail(lv.todo))
                /\ UNCHANGED outcome
           ELSE DeleteFailed(f) /\ UNCHANGED <<users, lv>>

\* 201-210: the user is deleted only in the handler of a failed get_login_profiles
DuLogin ==
    /\ pc = "du_login"
    /\ SameAccount /\ Fixed /\ UNCHANGED lv
    /\ \E f \in Resp(IF ~users[lv.name].exists THEN NoSuchUser
                     ELSE IF users[lv.name].login THEN Ok ELSE NoLoginProfile) :
        /\ faults' = Spend(f)
        /\ calls' = Append(calls, Call("get_login_profiles", lv.name, "", f))
        /\ IF f = Ok
           THEN \* 230-232: nothing raised, so changed = True is returned
                ExitJson(PyTrue, [deleted_user |-> lv.name])
           ELSE /\ pc' = IF f = NoLoginProfile THEN "du_delete" ELSE "du_dellogin"
                /\ UNCHANGED outcome

DuDelLogin ==
    /\ pc = "du_dellogin"
    /\ UNCHANGED <<grps, roles, profs>> /\ Fixed /\ UNCHANGED lv
    /\ \E f \in Resp(IF ~users[lv.name].exists THEN NoSuchUser
                     ELSE IF users[lv.name].login THEN Ok ELSE NoLoginProfile) :
        /\ faults' = Spend(f)
        /\ calls' = Append(calls, Call("delete_login_profile", lv.name, "", f))
        /\ IF f = Ok
           THEN /\ users' = [users EXCEPT ![lv.name].login = FALSE]
                /\ pc' = "du_delete"
                /\ UNCHANGED outcome
           ELSE DeleteFailed(f) /\ UNCHANGED users

\* what the provider answers to DeleteUser
DeleteUserFaults(n) ==
    IF ~users[n].exists THEN {NoSuchUser}
    ELSE LET u == users[n]
             conflicts ==
                (IF u.inline # {} \/ u.managed THEN {PolicyConflict} ELSE {})
                \cup (IF u.login \/ Len(u.keys) > 0 \/ u.groups # {}
                      THEN {OtherConflict} ELSE {})
         IN  IF conflicts = {} THEN {Ok} ELSE conflicts

DuDelete ==
    /\ pc = "du_delete"
    /\ UNCHANGED <<grps, roles, profs>> /\ Fixed /\ UNCHANGED lv
    /\ \E f \in Resps(DeleteUserFaults(lv.name)) :
        /\ faults' = Spend(f)
        /\ calls' = Append(calls, Call("delete_user", lv.name, "", f))
        /\ IF f = Ok
           THEN /\ users' = [users EXCEPT ![lv.name] = NoUser]
                /\ ExitJson(PyTrue, [deleted_user |-> lv.name])
           ELSE DeleteFailed(f) /\ UNCHANGED users

-----------------------------------------------------------------------------
(* main, kind user: 608-618 and the branches at 629-635, 664-679 *)

UserMain ==
    /\ pc = "user"
    /\ SameAccount /\ Fixed
    /\ LET name == lv.name
           new_name == lv.new_name
           user_exists == name \in lv.orig_user_list \/ new_name \in lv.orig_user_list
           state == params.state
       IN
       \E f \in IF user_exists
                THEN Resp(IF users[name].exists THEN Ok ELSE NoSuchUser)
                ELSE {Ok} :
        /\ faults' = Spend(f)
        /\ calls' = IF user_exists
                    THEN Append(calls, Call("get_user", name, "", f))
                    ELSE calls
        /\ IF f # Ok
           THEN Traceback(f) /\ UNCHANGED lv
           ELSE
           LET current_path == IF user_exists THEN users[name].path ELSE None
               swap == user_exists /\ ~Truthy(lv.new_path) /\ current_path # lv.path
               l1 == [lv EXCEPT !.user_exists = user_exists,
                                !.new_path = IF swap THEN lv.path ELSE @,
                                !.path = IF swap THEN current_path ELSE @]
           IN
           IF state = "present" /\ ~user_exists /\ ~Truthy(new_name)
           THEN /\ lv' = l1 /\ pc' = "cu_create" /\ UNCHANGED outcome
           ELSE IF state \in {"present", "update"} /\ user_exists
           THEN LET updated == name \notin lv.orig_user_list
                               /\ new_name \in lv.orig_user_list
                IN  /\ lv' = [l1 EXCEPT
                         !.password = IF params.update_password = "on_create"
                                      THEN None ELSE @,
                         !.been_updated = updated,
                         !.uname = IF updated /\ Truthy(new_name) THEN new_name ELSE name,
                         !.uchanged = PyFalse, !.name_change = FALSE]
                    /\ pc' = "uu_fetch"
                    /\ UNCHANGED outcome
           ELSE IF state = "update" /\ ~user_exists
           THEN FailJson(None, "The user does not exit. No update made.") /\ lv' = l1
           ELSE IF state = "absent"
           THEN IF user_exists
                THEN /\ lv' = EnterSetUsersGroups(l1, name, << >>, FALSE, None, "du_keys")
                     /\ pc' = "sg_fetch"
                     /\ UNCHANGED outcome
                ELSE ExitJson(PyFalse, [msg |-> "User is already absent"]) /\ lv' = l1
           ELSE FallOffEnd /\ lv' = l1

-----------------------------------------------------------------------------
(* update_user, 235-344, and its caller, 634-662 *)

\* 307-326: the next call of the loops over keys and zip(current_keys, status)
RECURSIVE KeyPos(_, _, _, _, _, _)
KeyPos(keys, current_keys, status, key_state, i, j) ==
    IF i > Len(keys) THEN [pc |-> "uu_final", i |-> i, j |-> 1]
    ELSE IF keys[i] \notin Range(current_keys)
    THEN KeyPos(keys, current_keys, status, key_state, i + 1, 1)
    ELSE IF j > Len(status)
    THEN IF key_state = "remove" THEN [pc |-> "uu_keydel", i |-> i, j |-> j]
         ELSE KeyPos(keys, current_keys, status, key_state, i + 1, 1)
    ELSE IF key_state # Lower(status[j]) THEN [pc |-> "uu_keyupd", i |-> i, j |-> j]
    ELSE KeyPos(keys, current_keys, status, key_state, i, j + 1)

\* 307
UuIdsNext(l) ==
    IF Len(l.key_ids) > 0 /\ Truthy(l.key_state)
    THEN KeyPos(l.key_ids, l.current_keys, l.status, l.key_state, 1, 1)
    ELSE [pc |-> "uu_final", i |-> 1, j |-> 1]
\* a top-up loop that runs once more than 298 does
UuKeyOneMore(l, key_qty) ==
    IF l.key_state = "create" /\ (key_qty = -1 \/ params.key_count >= key_qty)
    THEN [pc |-> "uu_key", i |-> 1, j |-> 1] ELSE UuIdsNext(l)

\* 296-298; key_qty is -1 when 246 never assigned it
UuKeysNext(l, key_qty) ==
    IF l.key_state = "create" /\ (key_qty = -1 \/ params.key_count > key_qty)
    THEN [pc |-> "uu_key", i |-> 1, j |-> 1] ELSE UuIdsNext(l)
\* a password step that looks at the password of the request, not at the one
\* main passed on
UuPwdOfRequest(l) ==
    IF Truthy(params.password) THEN [pc |-> "uu_pwd", i |-> 1, j |-> 1]
    ELSE UuKeysNext(l, l.key_qty)

\* 281
UuPwdNext(l) ==
    IF Truthy(l.password) THEN [pc |-> "uu_pwd", i |-> 1, j |-> 1]
    ELSE UuKeysNext(l, l.key_qty)
\* 261
UuRenameNext(l) ==
    IF Truthy(l.new_name) \/ Truthy(l.new_path)
    THEN [pc |-> "uu_getuser", i |-> 1, j |-> 1] ELSE UuPwdNext(l)

Goto(l, pos) ==
    /\ lv' = [l EXCEPT !.ki = pos.i, !.kj = pos.j]
    /\ pc' = pos.pc

\* 240-257; the second fetch (250-255) runs inside the handler of the first,
\* where nothing catches a fault
UuFetch ==
    /\ pc \in {"uu_fetch", "uu_fetch2"}
    /\ SameAccount /\ Fixed
    /\ LET again == pc = "uu_fetch2"
           who == IF again THEN lv.new_name ELSE lv.uname
       IN
       \E f \in Resp(IF who \in UserNames /\ users[who].exists THEN Ok ELSE NoSuchUser) :
        /\ faults' = Spend(f)
        /\ calls' = Append(calls, Call("get_all_access_keys", who, "", f))
        /\ IF f = Ok
           THEN LET l == [lv EXCEPT !.current_keys = KeyIdsOf(users[who]),
                                    !.status = KeyStatusOf(users[who]),
                                    !.uname = who,
                                    !.key_qty = IF again THEN -1
                                                ELSE Len(users[who].keys)]
                IN  Goto(l, UuRenameNext(l)) /\ UNCHANGED outcome
           ELSE IF again
           THEN Traceback(f) /\ UNCHANGED lv
           ELSE IF CannotBeFound(f) /\ lv.been_updated
           THEN pc' = "uu_fetch2" /\ UNCHANGED <<lv, outcome>>
           ELSE FailJson(PyFalse, f) /\ UNCHANGED lv

\* 262-264
UuGetUser ==
    /\ pc = "uu_getuser"
    /\ SameAccount /\ Fixed
    /\ \E f \in Resp(IF users[lv.uname].exists THEN Ok ELSE NoSuchUser) :
        /\ faults' = Spend(f)
        /\ calls' = Append(calls, Call("get_user", lv.uname, "", f))
        /\ IF f = Ok
           THEN LET c_path == users[lv.uname].path
                    l == [lv EXCEPT !.c_path = c_path]
                IN  IF lv.uname # lv.new_name \/ c_path # lv.new_path
                    THEN /\ lv' = [l EXCEPT !.uchanged = PyTrue]
                         /\ pc' = "uu_update"
                         /\ UNCHANGED outcome
                    ELSE Goto(l, UuPwdNext(l)) /\ UNCHANGED outcome
           ELSE Traceback(f) /\ UNCHANGED lv

\* what the provider answers to UpdateUser(name, new_user_name, new_path)
UpdateUserFaults(name, new_user_name) ==
    IF ~users[name].exists THEN {NoSuchUser}
    ELSE IF new_user_name = None THEN {Ok}
    ELSE IF new_user_name = name THEN {Ok, AlreadyExists}
    ELSE IF users[new_user_name].exists THEN {AlreadyExists} ELSE {Ok}

Renamed(us, name, new_user_name, new_path) ==
    LET target == IF new_user_name = None THEN name ELSE new_user_name
        rec == [us[name] EXCEPT !.path = IF new_path = None THEN @ ELSE new_path]
    IN  [[us EXCEPT ![name] = NoUser] EXCEPT ![target] = rec]

\* 265-279
UuUpdate ==
    /\ pc = "uu_update"
    /\ UNCHANGED <<grps, roles, profs>> /\ Fixed
    /\ LET new_user_name == IF lv.been_updated THEN None ELSE lv.new_name IN
       \E f \in Resps(UpdateUserFaults(lv.uname, new_user_name)) :
        /\ faults' = Spend(f)
        /\ calls' = Append(calls, Call2("update_user", lv.uname,
                                        new_user_name, lv.new_path, f))
        /\ IF f = Ok
           THEN LET l == [lv EXCEPT !.name_change = ~lv.been_updated]
                IN  /\ users' = Renamed(users, lv.uname, new_user_name, lv.new_path)
                    /\ Goto(l, UuPwdNext(l))
                    /\ UNCHANGED outcome
           ELSE FailJson(PyFalse, f) /\ UNCHANGED <<users, lv>>

\* 281-285
UuPwd ==
    /\ pc = "uu_pwd"
    /\ SameAccount /\ Fixed
    /\ \E f \in Resp(LoginUpdateFault(lv.uname, lv.password)) :
        /\ faults' = Spend(f)
        /\ calls' = Append(calls, Call("update_login_profile", lv.uname, lv.password, f))
        /\ UNCHANGED outcome
        /\ IF f = Ok
           THEN LET l == [lv EXCEPT !.uchanged = PyTrue]
                IN  Goto(l, UuKeysNext(l, l.key_qty))
           ELSE pc' = "uu_pwd_create" /\ UNCHANGED lv

\* 286-294
UuPwdCreate ==
    /\ pc = "uu_pwd_create"
    /\ UNCHANGED <<grps, roles, profs>> /\ Fixed
    /\ \E f \in Resp(LoginCreateFault(lv.uname, lv.password)) :
        /\ faults' = Spend(f)
        /\ calls' = Append(calls, Call("create_login_profile", lv.uname, lv.password, f))
        /\ IF f = Ok
           THEN LET l == [lv EXCEPT !.uchanged = PyTrue]
                IN  /\ users' = [users EXCEPT ![lv.uname].login = TRUE]
                    /\ Goto(l, UuKeysNext(l, l.key_qty))
                    /\ UNCHANGED outcome
           ELSE /\ IF f = PasswordPolicy
                   THEN FailJson(PyFalse, "Passsword doesn't conform to policy")
                   ELSE FailJson(None, f)
                /\ UNCHANGED <<users, lv>>

\* 296-305
UuKey ==
    /\ pc = "uu_key"
    /\ UNCHANGED <<grps, roles, profs>> /\ Fixed
    /\ IF lv.key_qty = -1
       THEN /\ Traceback("UnboundLocalError: key_qty")
            /\ NoCall /\ UNCHANGED <<users, lv>>
       ELSE
       \E f \in Resp(IF users[lv.uname].exists THEN Ok ELSE NoSuchUser) :
        /\ faults' = Spend(f)
        /\ calls' = Append(calls, Call("create_access_key", lv.uname, "", f))
        /\ IF f = Ok
           THEN LET l == [lv EXCEPT !.key_qty = @ + 1, !.uchanged = PyTrue]
                IN  /\ users' = [users EXCEPT
                                  ![lv.uname].keys = Append(@, Key(FreshKey, "Active"))]
                    /\ Goto(l, UuKeysNext(l, l.key_qty))
                    /\ UNCHANGED outcome
           ELSE FailJson(PyFalse, f) /\ UNCHANGED <<users, lv>>

\* what the provider answers to UpdateAccessKey(id, status, user)
UpdateKeyFault(n, id, status) ==
    IF ~users[n].exists THEN NoSuchUser
    ELSE IF status \notin {"Active", "Inactive"} THEN Invalid
    ELSE IF ~HasKey(users[n], id) THEN NoSuchKey ELSE Ok

\* 307-326: one call of the loops, the status update (310-318) or the delete (320-326)
UuKeyIds ==
    /\ pc \in {"uu_keyupd", "uu_keydel"}
    /\ UNCHANGED <<grps, roles, profs>> /\ Fixed
    /\ LET access_key == lv.key_ids[lv.ki]
           status == Capitalize(lv.key_state)
           update == pc = "uu_keyupd"
       IN
       \E f \in Resp(IF update THEN UpdateKeyFault(lv.uname, access_key, status)
                     ELSE KeyFault(lv.uname, access_key)) :
        /\ faults' = Spend(f)
        /\ calls' = Append(calls,
                           IF update
                           THEN Call2("update_access_key", lv.uname, access_key, status, f)
                           ELSE Call("delete_access_key", lv.uname, access_key, f))
        /\ IF f = Ok
           THEN LET l == [lv EXCEPT !.uchanged = PyTrue]
                IN  /\ users' = [users EXCEPT
                                  ![lv.uname].keys =
                                      IF update THEN SetKeyStatus(@, access_key, status)
                                      ELSE DropKey(@, access_key)]
                    /\ Goto(l, IF update
                               THEN KeyPos(l.key_ids, l.current_keys, l.status,
                                           l.key_state, l.ki, l.kj + 1)
                               ELSE KeyPos(l.key_ids, l.current_keys, l.status,
                                           l.key_state, l.ki + 1, 1))
                    /\ UNCHANGED outcome
           ELSE FailJson(PyFalse, f) /\ UNCHANGED <<users, lv>>

\* 328-344, then 634-641
UuFinal ==
    /\ pc = "uu_final"
    /\ SameAccount /\ Fixed
    /\ \E f \in Resp(IF users[lv.uname].exists THEN Ok ELSE NoSuchUser) :
        /\ faults' = Spend(f)
        /\ calls' = Append(calls, Call("get_all_access_keys", lv.uname, "", f))
        /\ IF f = Ok
           THEN LET renamed == lv.name_change /\ Truthy(lv.new_name)
                    l == [lv EXCEPT !.key_list = users[lv.uname].keys,
                                    !.user_changed = lv.uchanged,
                                    !.orig_name = IF renamed THEN lv.name ELSE @,
                                    !.name = IF renamed THEN lv.new_name ELSE @]
                IN  /\ IF Len(params.groups) > 0
                       THEN /\ lv' = EnterSetUsersGroups(l, l.name, params.groups,
                                                         l.been_updated, l.new_name,
                                                         "uu_exit")
                            /\ pc' = "sg_fetch"
                       ELSE lv' = l /\ pc' = "uu_exit"
                    /\ UNCHANGED outcome
           ELSE FailJson(lv.uchanged, f) /\ UNCHANGED lv

\* 639-662
UuExit ==
    /\ pc = "uu_exit"
    /\ NoCall /\ SameAccount /\ Fixed /\ UNCHANGED lv
    /\ LET changed == IF Len(params.groups) > 0
                      THEN IF lv.sg_changed = lv.user_changed
                           THEN lv.sg_changed ELSE PyTrue
                      ELSE lv.user_changed
           groups == IF Len(params.groups) > 0 THEN lv.sg_groups ELSE << >>
           new_name == Truthy(lv.new_name)
           new_path == Truthy(lv.new_path)
       IN  IF new_name /\ (new_path \/ ~lv.been_updated) /\ lv.orig_name = Unbound
           THEN \* 649, 653 read orig_name, which only 637 assigns
                Traceback("UnboundLocalError: orig_name")
           ELSE IF new_name /\ new_path
           THEN ExitJson(changed, [groups |-> groups, old_user_name |-> lv.orig_name,
                                   new_user_name |-> lv.new_name, old_path |-> lv.path,
                                   new_path |-> lv.new_path, keys |-> lv.key_list])
           ELSE IF new_name /\ ~lv.been_updated
           THEN ExitJson(changed, [groups |-> groups, old_user_name |-> lv.orig_name,
                                   new_user_name |-> lv.new_name, keys |-> lv.key_list])
           ELSE IF new_name
           THEN ExitJson(changed, [groups |-> groups, user_name |-> lv.new_name,
                                   keys |-> lv.key_list, key_state |-> lv.key_state])
           ELSE IF new_path
           THEN ExitJson(changed, [groups |-> groups, user_name |-> lv.name,
                                   old_path |-> lv.path, new_path |-> lv.new_path,
                                   keys |-> lv.key_list])
           ELSE ExitJson(changed, [groups |-> groups, user_name |-> lv.name,
                                   keys |-> lv.key_list])

-----------------------------------------------------------------------------
(* kind group: create_group 388-397, update_group 426-443, delete_group 400-424,
   and main 681-718 *)

\* a branch of main that creates the group an update does not find
GroupMainCreates ==
    /\ pc = "group"
    /\ NoCall /\ SameAccount /\ Fixed /\ UNCHANGED lv
    /\ LET group_exists == lv.name \in lv.orig_group_list
       IN  IF params.state \in {"present", "update"} /\ ~group_exists
           THEN pc' = "cg_create" /\ UNCHANGED outcome
           ELSE IF params.state \in {"present", "update"}
           THEN pc' = "ug_get" /\ UNCHANGED outcome
           ELSE IF group_exists
           THEN pc' = "dg_delete" /\ UNCHANGED outcome
           ELSE ExitJson(lv.changed, [msg |-> "Group already absent"])

\* 681-684, 687, 709-718
GroupMain ==
    /\ pc = "group"
    /\ NoCall /\ SameAccount /\ Fixed /\ UNCHANGED lv
    /\ LET group_exists == lv.name \in lv.orig_group_list
           state == params.state
       IN  IF state = "present" /\ ~group_exists
           THEN pc' = "cg_create" /\ UNCHANGED outcome
           ELSE IF state \in {"present", "update"} /\ group_exists
           THEN pc' = "ug_get" /\ UNCHANGED outcome
           ELSE IF state = "update" /\ ~group_exists
           THEN FailJson(lv.changed, "Update Failed. Group doesn't seem to exit!")
           ELSE IF state = "absent"
           THEN IF lv.name \in lv.orig_group_list
                THEN pc' = "dg_delete" /\ UNCHANGED outcome
                ELSE ExitJson(lv.changed, [msg |-> "Group already absent"])
           ELSE FallOffEnd

\* 388-397 and 685-686
CgCreate ==
    /\ pc = "cg_create"
    /\ UNCHANGED <<users, roles, profs, lv>> /\ Fixed
    /\ \E f \in Resp(IF grps[lv.name].exists THEN AlreadyExists ELSE Ok) :
        /\ faults' = Spend(f)
        /\ calls' = Append(calls, Call("create_group", lv.name, lv.path, f))
        /\ IF f = Ok
           THEN /\ grps' = [grps EXCEPT ![lv.name] = Group(lv.path, {}, FALSE)]
                /\ ExitJson(PyTrue, [group_name |-> lv.name])
           ELSE FailJson(PyFalse, f) /\ UNCHANGED grps

\* 691-707: the result of update_group, reported
UgExit(changed, updated_name, cur_path) ==
    LET new_path == Truthy(lv.new_path)
        new_name == Truthy(lv.new_name)
    IN  IF new_path /\ new_name
        THEN ExitJson(changed, [old_group_name |-> lv.name, new_group_name |-> updated_name,
                                old_path |-> cur_path, new_group_path |-> lv.new_path])
        ELSE IF new_path
        THEN ExitJson(changed, [group_name |-> lv.name, old_path |-> cur_path,
                                new_group_path |-> lv.new_path])
        ELSE IF new_name
        THEN ExitJson(changed, [old_group_name |-> lv.name,
                                new_group_name |-> updated_name, group_path |-> cur_path])
        ELSE ExitJson(changed, [group_name |-> lv.name, group_path |-> cur_path])

\* 429-430
UgGet ==
    /\ pc = "ug_get"
    /\ SameAccount /\ Fixed
    /\ \E f \in Resp(IF grps[lv.name].exists THEN Ok ELSE NoSuchGroup) :
        /\ faults' = Spend(f)
        /\ calls' = Append(calls, Call("get_group", lv.name, "", f))
        /\ IF f = Ok
           THEN LET cur == grps[lv.name].path IN
                /\ lv' = [lv EXCEPT !.c_path = cur]
                /\ IF Truthy(lv.new_path) /\ cur # lv.new_path
                   THEN pc' = "ug_path" /\ UNCHANGED outcome
                   ELSE IF Truthy(lv.new_name) /\ lv.name # lv.new_name
                   THEN pc' = "ug_name" /\ UNCHANGED outcome
                   ELSE UgExit(PyFalse, lv.name, cur)
           ELSE FailJson(PyFalse, f) /\ UNCHANGED lv

\* what the provider answers to UpdateGroup(name, new_group_name, new_path)
UpdateGroupFault(name, new_group_name) ==
    IF ~grps[name].exists THEN NoSuchGroup
    ELSE IF new_group_name # None /\ new_group_name # name /\ grps[new_group_name].exists
    THEN AlreadyExists ELSE Ok

RenamedGroup(gs, name, new_group_name, new_path) ==
    LET target == IF new_group_name = None THEN name ELSE new_group_name
        rec == [gs[name] EXCEPT !.path = IF new_path = None THEN @ ELSE new_path]
    IN  [[gs EXCEPT ![name] = NoGroup] EXCEPT ![target] = rec]
MembersRenamed(us, name, new_group_name) ==
    [n \in UserNames |->
        IF us[n].exists /\ name \in us[n].groups /\ new_group_name # None
        THEN [us[n] EXCEPT !.groups = (@ \ {name}) \cup {new_group_name}]
        ELSE us[n]]

\* a path update that is never followed by the rename
UgPathOnly ==
    /\ pc = "ug_path"
    /\ UNCHANGED <<users, roles, profs>> /\ Fixed
    /\ \E f \in Resp(UpdateGroupFault(lv.name, None)) :
        /\ faults' = Spend(f)
        /\ calls' = Append(calls, Call2("update_group", lv.name, None, lv.new_path, f))
        /\ IF f = Ok
           THEN /\ grps' = RenamedGroup(grps, lv.name, None, lv.new_path)
                /\ lv' = [lv EXCEPT !.changed = PyTrue]
                /\ UgExit(PyTrue, lv.name, lv.c_path)
           ELSE FailJson(lv.changed, f) /\ UNCHANGED <<grps, lv>>

\* 431-434
UgPath ==
    /\ pc = "ug_path"
    /\ UNCHANGED <<users, roles, profs>> /\ Fixed
    /\ \E f \in Resp(UpdateGroupFault(lv.name, None)) :
        /\ faults' = Spend(f)
        /\ calls' = Append(calls, Call2("update_group", lv.name, None, lv.new_path, f))
        /\ IF f = Ok
           THEN /\ grps' = RenamedGroup(grps, lv.name, None, lv.new_path)
                /\ lv' = [lv EXCEPT !.changed = PyTrue]
                /\ IF Truthy(lv.new_name) /\ lv.name # lv.new_name
                   THEN pc' = "ug_name" /\ UNCHANGED outcome
                   ELSE UgExit(PyTrue, lv.name, lv.c_path)
           ELSE FailJson(lv.changed, f) /\ UNCHANGED <<grps, lv>>

\* 435-439
UgName ==
    /\ pc = "ug_name"
    /\ UNCHANGED <<roles, profs>> /\ Fixed
    /\ \E f \in Resp(UpdateGroupFault(lv.name, lv.new_name)) :
        /\ faults' = Spend(f)
        /\ calls' = Append(calls,
                           Call2("update_group", lv.name, lv.new_name, lv.new_path, f))
        /\ IF f = Ok
           THEN /\ grps' = RenamedGroup(grps, lv.name, lv.new_name, lv.new_path)
                /\ users' = MembersRenamed(users, lv.name, lv.new_name)
                /\ lv' = [lv EXCEPT !.changed = PyTrue]
                /\ UgExit(PyTrue, lv.new_name, lv.c_path)
           ELSE FailJson(lv.changed, f) /\ UNCHANGED <<users, grps, lv>>

\* what the provider answers to DeleteGroup
DeleteGroupFaults(n) ==
    IF ~grps[n].exists THEN {NoSuchGroup}
    ELSE LET conflicts ==
                (IF grps[n].inline # {} \/ grps[n].managed THEN {PolicyConflict} ELSE {})
                \cup (IF \E u \in UserNames : users[u].exists /\ n \in users[u].groups
                      THEN {OtherConflict} ELSE {})
         IN  IF conflicts = {} THEN {Ok} ELSE conflicts

\* 715-716: removed_group, changed = delete_group(...), which returns (changed, name)
DgExit(changed, name) == ExitJson(name, [delete_group |-> changed])

\* 402-406 and 410-423
DgDelete ==
    /\ pc \in {"dg_delete", "dg_retry"}
    /\ UNCHANGED <<users, roles, profs, lv>> /\ Fixed
    /\ \E f \in Resps(DeleteGroupFaults(lv.name)) :
        /\ faults' = Spend(f)
        /\ calls' = Append(calls, Call("delete_group", lv.name, "", f))
        /\ IF f = Ok
           THEN /\ grps' = [grps EXCEPT ![lv.name] = NoGroup]
                /\ DgExit(PyTrue, lv.name)
           ELSE /\ UNCHANGED grps
                /\ IF pc = "dg_retry"
                   THEN IF MustDetach(f)
                        THEN FailJson(PyFalse, "All inline polices have been removed. Managed Polices")
                        ELSE FailJson(PyFalse, f)
                   ELSE IF MustDetach(f)
                   THEN pc' = "dg_policies" /\ UNCHANGED outcome
                   ELSE \* 406 has no else: the fault is dropped and changed stays False
                        DgExit(PyFalse, lv.name)

\* a remediation that lists the inline policies and retries without deleting them
DgPoliciesKept ==
    /\ pc = "dg_policies"
    /\ UNCHANGED <<users, grps, roles, profs>> /\ Fixed
    /\ \E f \in Resp(IF grps[lv.name].exists THEN Ok ELSE NoSuchGroup) :
        /\ faults' = Spend(f)
        /\ calls' = Append(calls, Call("get_all_group_policies", lv.name, "", f))
        /\ IF f = Ok
           THEN /\ lv' = [lv EXCEPT !.pending = grps[lv.name].inline]
                /\ pc' = "dg_retry"
                /\ UNCHANGED outcome
           ELSE Traceback(f) /\ UNCHANGED lv

\* 407-408, in the handler of 404: a fault here is caught by nothing
DgPolicies ==
    /\ pc \in {"dg_policies", "dg_policy"}
    /\ UNCHANGED <<users, roles, profs>> /\ Fixed
    /\ IF pc = "dg_policies"
       THEN \E f \in Resp(IF grps[lv.name].exists THEN Ok ELSE NoSuchGroup) :
            /\ faults' = Spend(f)
            /\ calls' = Append(calls, Call("get_all_group_policies", lv.name, "", f))
            /\ UNCHANGED grps
            /\ IF f = Ok
               THEN /\ lv' = [lv EXCEPT !.pending = grps[lv.name].inline]
                    /\ pc' = IF grps[lv.name].inline = {} THEN "dg_retry" ELSE "dg_policy"
                    /\ UNCHANGED outcome
               ELSE Traceback(f) /\ UNCHANGED lv
       ELSE \E policy \in lv.pending :
            \E f \in Resp(IF grps[lv.name].exists THEN Ok ELSE NoSuchGroup) :
            /\ faults' = Spend(f)
            /\ calls' = Append(calls, Call("delete_group_policy", lv.name, policy, f))
            /\ IF f = Ok
               THEN /\ grps' = [grps EXCEPT ![lv.name].inline = @ \ {policy}]
                    /\ lv' = [lv EXCEPT !.pending = @ \ {policy}]
                    /\ pc' = IF lv.pending = {policy} THEN "dg_retry" ELSE "dg_policy"
                    /\ UNCHANGED outcome
               ELSE Traceback(f) /\ UNCHANGED <<grps, lv>>

-----------------------------------------------------------------------------
(* kind role: create_role 446-462, delete_role 465-507, and main 720-731 *)

\* a branch of main that deletes the role without detaching its instance profiles
RoleMainNoDetach ==
    /\ pc = "role"
    /\ NoCall /\ SameAccount /\ Fixed /\ UNCHANGED outcome
    /\ lv' = [lv EXCEPT !.changed = PyFalse]
    /\ IF params.state = "present"
       THEN pc' = IF lv.name \notin lv.orig_role_list THEN "cr_create" ELSE "role_list"
       ELSE pc' = IF lv.name \in lv.orig_role_list THEN "dr_delete"
                  ELSE IF lv.name \in lv.orig_prof_list THEN "dr_delprofile"
                  ELSE "role_list"

\* 720-726, with 449 and 468
RoleMain ==
    /\ pc = "role"
    /\ NoCall /\ SameAccount /\ Fixed /\ UNCHANGED outcome
    /\ lv' = [lv EXCEPT !.changed = PyFalse]
    /\ IF params.state = "present"
       THEN pc' = IF lv.name \notin lv.orig_role_list THEN "cr_create" ELSE "role_list"
       ELSE \* absent; update was refused at 571
            pc' = IF lv.name \in lv.orig_role_list THEN "dr_profiles"
                  ELSE IF lv.name \in lv.orig_prof_list THEN "dr_delprofile"
                  ELSE "role_list"

\* 449-458
CrCreate ==
    /\ pc \in {"cr_create", "cr_profile", "cr_attach"}
    /\ UNCHANGED users /\ UNCHANGED grps /\ Fixed
    /\ LET name == lv.name
           det == CASE pc = "cr_create" ->
                        IF roles[name].exists THEN AlreadyExists ELSE Ok
                    [] pc = "cr_profile" ->
                        IF name \in profs THEN AlreadyExists ELSE Ok
                    [] pc = "cr_attach" ->
                        IF ~roles[name].exists THEN NoSuchRole
                        ELSE IF name \notin profs THEN NoSuchProfile ELSE Ok
           op == CASE pc = "cr_create" -> "create_role"
                   [] pc = "cr_profile" -> "create_instance_profile"
                   [] pc = "cr_attach" -> "add_role_to_instance_profile"
       IN
       \E f \in Resp(det) :
        /\ faults' = Spend(f)
        /\ calls' = Append(calls, Call(op, name, IF pc = "cr_attach" THEN name ELSE lv.path, f))
        /\ IF f = Ok
           THEN /\ roles' = CASE pc = "cr_create" ->
                                [roles EXCEPT ![name] = Role(lv.path, {}, FALSE, {})]
                              [] pc = "cr_attach" ->
                                [roles EXCEPT ![name].profiles = @ \cup {name}]
                              [] OTHER -> roles
                /\ profs' = IF pc = "cr_profile" THEN profs \cup {name} ELSE profs
                /\ lv' = [lv EXCEPT !.changed = PyTrue]
                /\ pc' = CASE pc = "cr_create" ->
                                IF name \notin lv.orig_prof_list THEN "cr_profile"
                                ELSE "role_list"
                           [] pc = "cr_profile" -> "cr_attach"
                           [] pc = "cr_attach" -> "role_list"
                /\ UNCHANGED outcome
           ELSE \* 450 sets changed before the first call
                /\ FailJson(PyTrue, f)
                /\ UNCHANGED <<roles, profs, lv>>

\* 460-462 and 505-507, then 731: outside the try, so a fault is caught by nothing
RoleList ==
    /\ pc = "role_list"
    /\ SameAccount /\ Fixed /\ UNCHANGED lv
    /\ \E f \in Resp(Ok) :
        /\ faults' = Spend(f)
        /\ calls' = Append(calls, Call("list_roles", "", "", f))
        /\ IF f = Ok
           THEN ExitJson(lv.changed, [roles |-> ExistingRoles])
           ELSE Traceback(f)

\* where delete_role goes after the role itself is dealt with, 499-501
DrAfterRole == IF lv.name \in lv.orig_prof_list THEN "dr_delprofile" ELSE "role_list"

\* 469-474
DrProfiles ==
    /\ pc \in {"dr_profiles", "dr_detach"}
    /\ UNCHANGED <<users, grps, profs, outcome>> /\ Fixed
    /\ IF pc = "dr_profiles"
       THEN \E f \in Resp(IF roles[lv.name].exists THEN Ok ELSE NoSuchRole) :
            /\ faults' = Spend(f)
            /\ calls' = Append(calls,
                               Call("list_instance_profiles_for_role", lv.name, "", f))
            /\ UNCHANGED roles
            /\ IF f = Ok
               THEN /\ lv' = [lv EXCEPT !.pending = roles[lv.name].profiles]
                    /\ pc' = IF roles[lv.name].profiles = {} THEN "dr_delete"
                             ELSE "dr_detach"
               ELSE lv' = lv /\ pc' = "dr_fail"
       ELSE \E profile \in lv.pending :
            \E f \in Resp(IF roles[lv.name].exists THEN Ok ELSE NoSuchRole) :
            /\ faults' = Spend(f)
            /\ calls' = Append(calls,
                               Call("remove_role_from_instance_profile", lv.name, profile, f))
            /\ IF f = Ok
               THEN /\ roles' = [roles EXCEPT ![lv.name].profiles = @ \ {profile}]
                    /\ lv' = [lv EXCEPT !.pending = @ \ {profile}]
                    /\ pc' = IF lv.pending = {profile} THEN "dr_delete" ELSE "dr_detach"
               ELSE UNCHANGED <<roles, lv>> /\ pc' = "dr_fail"

\* 502-503: the handler of the outer try
DrFail ==
    /\ pc = "dr_fail"
    /\ NoCall /\ SameAccount /\ Fixed /\ UNCHANGED lv
    /\ FailJson(lv.changed, calls[Len(calls)].res)

\* what the provider answers to DeleteRole
DeleteRoleFaults(n) ==
    IF ~roles[n].exists THEN {NoSuchRole}
    ELSE LET conflicts ==
                (IF roles[n].inline # {} \/ roles[n].managed THEN {PolicyConflict} ELSE {})
                \cup (IF roles[n].profiles # {} THEN {OtherConflict} ELSE {})
         IN  IF conflicts = {} THEN {Ok} ELSE conflicts

\* 475-497: the second delete_role (482-483) follows every fault of the first,
\* and also a first delete that succeeded only if 477 was entered
DrDelete ==
    /\ pc \in {"dr_delete", "dr_retry"}
    /\ UNCHANGED <<users, grps, profs>> /\ Fixed
    /\ \E f \in Resps(DeleteRoleFaults(lv.name)) :
        /\ faults' = Spend(f)
        /\ calls' = Append(calls, Call("delete_role", lv.name, "", f))
        /\ IF f = Ok
           THEN /\ roles' = [roles EXCEPT ![lv.name] = NoRole]
                /\ lv' = [lv EXCEPT !.changed = PyTrue]
                /\ pc' = DrAfterRole
                /\ UNCHANGED outcome
           ELSE /\ UNCHANGED <<roles, lv>>
                /\ IF pc = "dr_retry"
                   THEN IF MustDetach(f)
                        THEN FailJson(lv.changed, "All inline polices have been removed. Managed Polices")
                        ELSE FailJson(lv.changed, f)
                   ELSE /\ pc' = IF MustDetach(f) THEN "dr_policies" ELSE "dr_retry"
                        /\ UNCHANGED outcome

\* 480-481, inside the outer try
DrPolicies ==
    /\ pc \in {"dr_policies", "dr_policy"}
    /\ UNCHANGED <<users, grps, profs, outcome>> /\ Fixed
    /\ IF pc = "dr_policies"
       THEN \E f \in Resp(IF roles[lv.name].exists THEN Ok ELSE NoSuchRole) :
            /\ faults' = Spend(f)
            /\ calls' = Append(calls, Call("list_role_policies", lv.name, "", f))
            /\ UNCHANGED roles
            /\ IF f = Ok
               THEN /\ lv' = [lv EXCEPT !.pending = roles[lv.name].inline]
                    /\ pc' = IF roles[lv.name].inline = {} THEN "dr_retry" ELSE "dr_policy"
               ELSE lv' = lv /\ pc' = "dr_fail"
       ELSE \E policy \in lv.pending :
            \E f \in Resp(IF roles[lv.name].exists THEN Ok ELSE NoSuchRole) :
            /\ faults' = Spend(f)
            /\ calls' = Append(calls, Call("delete_role_policy", lv.name, policy, f))
            /\ IF f = Ok
               THEN /\ roles' = [roles EXCEPT ![lv.name].inline = @ \ {policy}]
                    /\ lv' = [lv EXCEPT !.pending = @ \ {policy}]
                    /\ pc' = IF lv.pending = {policy} THEN "dr_retry" ELSE "dr_policy"
               ELSE UNCHANGED <<roles, lv>> /\ pc' = "dr_fail"

\* what the provider answers to DeleteInstanceProfile
DeleteProfileFault(n) ==
    IF n \notin profs THEN NoSuchProfile
    ELSE IF \E r \in RoleNames : roles[r].exists /\ n \in roles[r].profiles
    THEN OtherConflict ELSE Ok

\* 499-501
DrDelProfile ==
    /\ pc = "dr_delprofile"
    /\ UNCHANGED <<users, grps, roles, lv, outcome>> /\ Fixed
    /\ \E f \in Resp(DeleteProfileFault(lv.name)) :
        /\ faults' = Spend(f)
        /\ calls' = Append(calls, Call("delete_instance_profile", lv.name, "", f))
        /\ IF f = Ok
           THEN profs' = profs \ {lv.name} /\ pc' = "role_list"
           ELSE UNCHANGED profs /\ pc' = "dr_fail"

Next ==
    \/ Validate \/ Inventory \/ UserMain
    \/ SgFetch \/ SgAdd \/ SgRemove \/ SgZero
    \/ CuCreate \/ CuLogin \/ CuKey \/ CuKeys \/ CuExit
    \/ DuKeys \/ DuDelKey \/ DuLogin \/ DuDelLogin \/ DuDelete
    \/ UuFetch \/ UuGetUser \/ UuUpdate \/ UuPwd \/ UuPwdCreate
    \/ UuKey \/ UuKeyIds \/ UuFinal \/ UuExit
    \/ GroupMain \/ CgCreate \/ UgGet \/ UgPath \/ UgName \/ DgDelete \/ DgPolicies
    \/ RoleMain \/ CrCreate \/ RoleList
    \/ DrProfiles \/ DrFail \/ DrDelete \/ DrPolicies \/ DrDelProfile
Spec == Init /\ [][Next]_vars

-----------------------------------------------------------------------------
(* What the claims speak of *)

Done == pc = "done"
Exited == outcome.kind = "exit"
\* the environment injected no transient fault: every fault came from the account
NoTransient == faults = MaxFaults
IsUser == params.iam_type = "user"
IsGroup == params.iam_type = "group"
IsRole == params.iam_type = "role"

Indices(op) == {i \in 1..Len(calls) : calls[i].op = op}
Count(op) == Cardinality(Indices(op))
OkIndices(op) == {i \in Indices(op) : calls[i].res = Ok}
\* the four calls of the inventory snapshot
SnapshotCalls == Len(InventoryCalls)

StartUser == start.users[params.name]
StartKeys == IF StartUser.exists THEN Len(StartUser.keys) ELSE 0
StartGroupsOf(n) == IF start.users[n].exists THEN start.users[n].groups ELSE {}
InStartInventory(n) ==
    CASE IsUser -> n \in UserNames /\ start.users[n].exists
      [] IsGroup -> n \in GroupNames /\ start.grps[n].exists
      [] IsRole -> n \in RoleNames /\ start.roles[n].exists
Max(a, b) == IF a > b THEN a ELSE b

-----------------------------------------------------------------------------
(* C1 *)

\* The request names a desired state (name, path, password, groups, key count)
\* and the account the run started from already has it.
MatchesDesired ==
    /\ params.state = "present"
    /\ params.new_name = None /\ params.new_path = None
    /\ InStartInventory(params.name)
    /\ IF IsUser
       THEN /\ StartUser.path = params.path
            /\ params.access_key_state \in {None, "create"}
            /\ params.access_key_ids = << >>
            /\ params.access_key_state = "create" => StartKeys >= params.key_count
            /\ Len(params.groups) > 0 => StartUser.groups = Range(params.groups)
            /\ params.password # None => params.password = "good" /\ StartUser.login
       ELSE params.password = None /\ params.access_key_state = None
PasswordApplied == params.password # None /\ params.update_password = "always"

\* C1 as stated: present on an account that already matches the desired state,
\* a password included, reports changed=false.
C1_Original ==
    (Done /\ MatchesDesired /\ NoTransient)
        => (Exited /\ outcome.changed = PyFalse)

\* C1, amended: present on an account that already matches the desired state
\* reports changed=false and issues no mutating call, for each of user, group
\* and role, provided no password is applied (none supplied, or
\* update_password=on_create); an applied password always reports changed=true.
C1_IdempotentPresent ==
    (Done /\ MatchesDesired /\ NoTransient)
        => /\ Exited
           /\ outcome.changed = (IF PasswordApplied THEN PyTrue ELSE PyFalse)
           /\ ~PasswordApplied =>
                /\ users = start.users /\ grps = start.grps
                /\ roles = start.roles /\ profs = start.profs

C1_Witness ==
    /\ Done /\ MatchesDesired /\ NoTransient /\ IsUser
    /\ Len(params.groups) > 0
    /\ params.access_key_state = "create" /\ params.key_count = MaxKeyCount
    /\ outcome.changed = PyFalse

-----------------------------------------------------------------------------
(* C2 *)

\* the rename from name to new_name happened in an earlier run
AlreadyRenamed ==
    /\ IsUser /\ params.state \in {"present", "update"}
    /\ params.new_name \in UserNames /\ params.new_name # params.name
    /\ ~start.users[params.name].exists
    /\ start.users[params.new_name].exists
Renames == {i \in Indices("update_user") : calls[i].arg # None}

\* C2: a user update with new_name, re-run when the account holds only
\* new_name, resolves the user under new_name, ends successfully and issues no
\* rename call.
C2_RenameRerun ==
    (Done /\ AlreadyRenamed /\ NoTransient) => (Exited /\ Renames = {})

-----------------------------------------------------------------------------
(* C3 *)

DeletedUser == OkIndices("delete_user") # {}

\* C3: user absent on an existing user: a successful outcome with changed=true
\* means the delete-user call was issued and succeeded, after every group
\* membership, every access key and the login credential were removed.
C3_UserAbsent ==
    (Done /\ IsUser /\ params.state = "absent" /\ StartUser.exists
          /\ Exited /\ outcome.changed = PyTrue)
        => /\ DeletedUser
           /\ ~users[params.name].exists
           /\ Cardinality(OkIndices("remove_user_from_group"))
                = Cardinality(StartUser.groups)
           /\ Cardinality(OkIndices("delete_access_key")) = Len(StartUser.keys)
           /\ StartUser.login => OkIndices("delete_login_profile") # {}

-----------------------------------------------------------------------------
(* C4 *)

PolicyBlocked ==
    \E i \in Indices("delete_user") : MustDetach(calls[i].res)

\* C4: when delete-user fails with "must detach all policies first", every
\* inline policy of the user is deleted and delete-user is retried once; if
\* the retry succeeds the outcome is changed=true.
C4_InlineRemediation ==
    (Done /\ IsUser /\ PolicyBlocked /\ NoTransient)
        => /\ Count("delete_user") = 2
           /\ Count("delete_user_policy") = Cardinality(StartUser.inline)
           /\ ~StartUser.managed => (Exited /\ outcome.changed = PyTrue)

-----------------------------------------------------------------------------
(* C5 *)

AbsentOnMissing ==
    /\ params.state = "absent"
    /\ ~InStartInventory(params.name)
    /\ IsUser \/ (params.password = None /\ params.access_key_state = None)
    /\ ~(IsUser /\ ActiveOrInactive(params.access_key_state))
AfterSnapshot == {i \in 1..Len(calls) : i > SnapshotCalls}

\* C5: absent on a resource whose name is not in the inventory returns
\* changed=false and issues no provider call after the snapshot.
C5_AbsentOnMissingNoCalls ==
    (Done /\ AbsentOnMissing /\ NoTransient)
        => (Exited /\ outcome.changed = PyFalse /\ AfterSnapshot = {})

\* a user that the inventory lists under new_name only
ListedUnderNewName ==
    IsUser /\ params.new_name \in UserNames /\ start.users[params.new_name].exists

\* What does hold of absent on a missing resource: changed=false is reported; a
\* user (listed under neither name nor new_name) and a group get no provider
\* call after the snapshot; a role gets no call on the role itself, only the
\* delete of an instance profile named like the role, when the snapshot lists
\* one, and the final list_roles.
AbsentOnMissingCalls ==
    (Done /\ AbsentOnMissing /\ ~ListedUnderNewName /\ NoTransient)
        => /\ Exited /\ outcome.changed = PyFalse
           /\ users = start.users /\ grps = start.grps /\ roles = start.roles
           /\ IF IsRole
              THEN /\ {calls[i].op : i \in AfterSnapshot}
                        = {"list_roles"} \cup
                          (IF params.name \in start.profs
                           THEN {"delete_instance_profile"} ELSE {})
                   /\ params.name \notin profs
              ELSE AfterSnapshot = {}

ProfileDeletedForMissingRole ==
    /\ Done /\ AbsentOnMissing /\ NoTransient /\ IsRole
    /\ params.name \in start.profs
    /\ Exited /\ outcome.changed = PyFalse
    /\ Count("delete_instance_profile") = 1

-----------------------------------------------------------------------------
(* C6 *)

KeysRequested ==
    /\ IsUser /\ params.state \in {"present", "update"}
    /\ params.access_key_state = "create"
KeysToCreate == Max(params.key_count - StartKeys, 0)
CreatedUser == OkIndices("create_user") # {}

\* C6: with access_key_state=create, a user holding k keys and a target of n:
\* no run issues more than n-k create-access-key calls (none when n <= k) or
\* deletes a key, and a run that ends successfully has issued exactly n-k of
\* them; on the creation path one create-user call is followed by n create-key
\* calls and the outcome is changed=true with n keys.
C6_KeyCountConvergence ==
    KeysRequested =>
        /\ Count("create_access_key") <= KeysToCreate
        /\ Count("delete_access_key") = 0
        /\ (Done /\ Exited) =>
            /\ Cardinality(OkIndices("create_access_key")) = KeysToCreate
            /\ Len(users[params.name].keys) = Max(params.key_count, StartKeys)
        /\ (Done /\ Exited /\ CreatedUser) =>
            /\ Count("create_user") = 1
            /\ \A i \in Indices("create_access_key") :
                    \A j \in Indices("create_user") : j < i
            /\ outcome.changed = PyTrue
            /\ Len(outcome.data.keys) = params.key_count

C6_Witness ==
    /\ Done /\ Exited /\ KeysRequested /\ CreatedUser
    /\ params.key_count = MaxKeyCount
    /\ Count("create_access_key") = MaxKeyCount
    /\ Len(outcome.data.keys) = MaxKeyCount

-----------------------------------------------------------------------------
(* C7 *)

MembershipCalls == Indices("add_user_to_group") \cup Indices("remove_user_from_group")
\* set_users_groups has returned to its caller
Reconciled == pc = lv.ret /\ lv.ret # ""
Desired == Range(lv.sg_groups)
Current == StartGroupsOf(lv.sg_name)
Added == {calls[i].arg : i \in Indices("add_user_to_group")}
Removed == {calls[i].arg : i \in Indices("remove_user_from_group")}

\* C7: for a current group set C and a desired set D, when set_users_groups
\* returns with every membership call having succeeded, the groups added were
\* exactly D\C and the groups removed exactly C\D (one call each, when the
\* desired list names no group twice), the user's membership is D, and the
\* reported changed is true iff D\C or C\D is non-empty.
C7_MembershipDiff ==
    (Reconciled /\ \A i \in MembershipCalls : calls[i].res = Ok)
        => /\ Added = Desired \ Current
           /\ Removed = Current \ Desired
           /\ Len(lv.sg_groups) = Cardinality(Desired)
                => Count("add_user_to_group") = Cardinality(Desired \ Current)
           /\ Count("remove_user_from_group") = Cardinality(Current \ Desired)
           /\ users[lv.sg_name].groups = Desired
           /\ lv.sg_changed = B(Desired \ Current # {} \/ Current \ Desired # {})

C7_Witness ==
    /\ Reconciled /\ \A i \in MembershipCalls : calls[i].res = Ok
    /\ Desired \ Current # {} /\ Current \ Desired # {}
    /\ users[lv.sg_name].groups = Desired

-----------------------------------------------------------------------------
(* C8 *)

\* the user the request is about, under the name it has now
Subject ==
    IF users[params.name].exists \/ params.new_name \notin UserNames
    THEN params.name ELSE params.new_name

\* C8: no remove-user-from-group call is issued before an add-user-to-group
\* call of the same run, and a user whose current and desired memberships are
\* both non-empty is never in zero groups.
C8_AddBeforeRemove ==
    /\ \A i \in Indices("remove_user_from_group") :
            \A j \in Indices("add_user_to_group") : j < i
    /\ (IsUser /\ params.state \in {"present", "update"}
          /\ StartUser.exists /\ StartUser.groups # {} /\ Len(params.groups) > 0
          /\ users[Subject].exists)
        => users[Subject].groups # {}

C8_Witness ==
    /\ pc = "sg_remove"
    /\ OkIndices("add_user_to_group") # {}
    /\ StartUser.groups \cap Range(params.groups) = {}

-----------------------------------------------------------------------------
(* C9 *)

\* C9: after a rename succeeded, every later provider call of the run
\* addresses the user by the new name, and the run ends successfully.
C9_NewNameAfterRename ==
    /\ \A i \in Renames : calls[i].res = Ok /\ calls[i].arg # calls[i].who =>
            \A j \in (i + 1)..Len(calls) : calls[j].who = calls[i].arg
    /\ (Done /\ NoTransient
          /\ \E i \in Renames : calls[i].res = Ok /\ calls[i].arg # calls[i].who)
        => Exited

-----------------------------------------------------------------------------
(* C10 *)

StatusAtStart(id) ==
    LET i == CHOOSE k \in 1..Len(StartUser.keys) : StartUser.keys[k].id = id
    IN  StartUser.keys[i].status
Listed == Range(params.access_key_ids)
Held == IF StartUser.exists THEN Range(KeyIdsOf(StartUser)) ELSE {}
StatusUpdates(id) == {i \in Indices("update_access_key") : calls[i].arg = id}
KeyDeletes(id) == {i \in Indices("delete_access_key") : calls[i].arg = id}

\* C10: in a user update, a status call for a listed key the user holds is
\* issued iff that key's own status differs from the requested active or
\* inactive state; with remove the key is deleted and no status call is
\* issued; keys not listed are never touched.
C10_ExplicitKeyIds ==
    (IsUser /\ params.state \in {"present", "update"} /\ StartUser.exists
        /\ params.access_key_state \in {"active", "inactive", "remove"})
    => /\ \A id \in Held \ Listed : StatusUpdates(id) = {} /\ KeyDeletes(id) = {}
       /\ \A id \in Held \cap Listed :
            /\ params.access_key_state = "remove" => StatusUpdates(id) = {}
            /\ params.access_key_state # "remove" /\ StatusUpdates(id) # {}
                    => Lower(StatusAtStart(id)) # params.access_key_state
            /\ (Done /\ Exited) =>
                    IF params.access_key_state = "remove"
                    THEN KeyDeletes(id) # {}
                    ELSE Lower(StatusAtStart(id)) # params.access_key_state
                            => StatusUpdates(id) # {}

-----------------------------------------------------------------------------
(* C11 *)

DeleteOps == {"delete_user", "delete_group", "delete_role"}
Failed == outcome.kind \in {"fail", "traceback"}
\* the delete calls that failed with a fault other than "must detach all policies first"
FatalDeletes ==
    {i \in 1..Len(calls) :
        /\ calls[i].op \in DeleteOps
        /\ calls[i].res # Ok /\ ~MustDetach(calls[i].res)}

\* C11: when a delete call for a user, group or role fails with a fault other
\* than "must detach all policies first", the delete is not issued again and
\* the run ends in a failure, never in a successful outcome.
C11_FailFastDelete ==
    \A i \in FatalDeletes :
        /\ \A j \in (i + 1)..Len(calls) : calls[j].op # calls[i].op
        /\ Done => Failed

-----------------------------------------------------------------------------
(* C12 *)

\* the add calls issued for a user who was in no group
ZeroGroupAdds ==
    {i \in Indices("add_user_to_group") : StartGroupsOf(calls[i].who) = {}}

\* C12: when the user belongs to no group, a "group cannot be found" fault of an
\* add call ends the run with the failure that names the missing group, and
\* any other fault of an add call ends the run with a failure too.
C12_ZeroGroupFaults ==
    \A i \in ZeroGroupAdds :
        (Done /\ calls[i].res # Ok)
            => /\ Failed
               /\ calls[i].res = NoSuchGroup => outcome.msg = "Group doesn't exist"

-----------------------------------------------------------------------------
(* C13 *)

MutatingOps ==
    {"create_user", "delete_user", "update_user",
     "create_login_profile", "update_login_profile", "delete_login_profile",
     "create_access_key", "update_access_key", "delete_access_key",
     "add_user_to_group", "remove_user_from_group", "delete_user_policy",
     "create_group", "update_group", "delete_group", "delete_group_policy",
     "create_role", "delete_role", "delete_role_policy",
     "create_instance_profile", "add_role_to_instance_profile",
     "remove_role_from_instance_profile", "delete_instance_profile"}
Committed == {i \in 1..Len(calls) : calls[i].op \in MutatingOps /\ calls[i].res = Ok}

\* C13: a structured failure carries changed=true when a mutating provider call
\* of the run succeeded before the fault, and changed=false (or no changed at
\* all, which the caller reads as false) when none did.
C13_FailureReportsProgress ==
    (Done /\ outcome.kind = "fail")
        => (outcome.changed = PyTrue) = (Committed # {})

-----------------------------------------------------------------------------
(* C14 *)

\* the call that takes back what a call did
InverseOf(op) ==
    CASE op = "create_user" -> "delete_user"
      [] op = "create_login_profile" -> "delete_login_profile"
      [] op = "create_access_key" -> "delete_access_key"
      [] op = "add_user_to_group" -> "remove_user_from_group"
      [] op = "create_group" -> "delete_group"
      [] op = "create_role" -> "delete_role"
      [] op = "create_instance_profile" -> "delete_instance_profile"
      [] op = "add_role_to_instance_profile" -> "remove_role_from_instance_profile"
      [] OTHER -> "none"
Undoes(a, b) ==
    /\ b.op = InverseOf(a.op) /\ b.who = a.who
    /\ a.op \in {"add_user_to_group", "add_role_to_instance_profile"} => b.arg = a.arg
Did(op) == OkIndices(op) # {}

\* C14: no call of a run takes back what an earlier call of the run committed,
\* and after a run that ended in a failure everything committed before the
\* fault is still in the account: a created user (with the login profile, the
\* keys and the memberships the run gave it), a created group, a created role
\* and a created instance profile.
C14_NoRollback ==
    /\ \A i \in Committed : \A j \in Committed : i < j => ~Undoes(calls[i], calls[j])
    /\ (Done /\ Failed) =>
        /\ Did("create_user") =>
            /\ users[params.name].exists
            /\ users[params.name].login = Did("create_login_profile")
            /\ Len(users[params.name].keys) = Cardinality(OkIndices("create_access_key"))
            /\ users[params.name].groups
                    = {calls[i].arg : i \in OkIndices("add_user_to_group")}
        /\ Did("create_group") => grps[params.name].exists
        /\ Did("create_role") => roles[params.name].exists
        /\ Did("create_instance_profile") => params.name \in profs

C14_Witness ==
    /\ Done /\ outcome.kind = "fail" /\ Did("create_user")
    /\ calls[Len(calls)].op = "create_login_profile"
    /\ calls[Len(calls)].res = PasswordPolicy
    /\ users[params.name].exists

-----------------------------------------------------------------------------
(* C15 *)

\* the group is listed under new_name and not under the declared name
GroupUnderNewName ==
    /\ IsGroup /\ params.state \in {"present", "update"}
    /\ params.password = None /\ params.access_key_state = None
    /\ params.new_name \in GroupNames /\ params.new_name # params.name
    /\ ~start.grps[params.name].exists
    /\ start.grps[params.new_name].exists

\* C15: a group update or present that carries new_name, when the inventory
\* lists new_name and not the declared name, treats the group as existing: the
\* run does not fail and creates no group under the old name.
C15_GroupExistsUnderNewName ==
    (Done /\ GroupUnderNewName /\ NoTransient)
        => /\ Exited
           /\ Count("create_group") = 0
           /\ ~grps[params.name].exists

-----------------------------------------------------------------------------
(* C16 *)

GroupDeletes == Indices("delete_group")
FirstDelete == CHOOSE i \in GroupDeletes : \A j \in GroupDeletes : i <= j
LastDelete == CHOOSE i \in GroupDeletes : \A j \in GroupDeletes : j <= i
PolicyCalls == Indices("get_all_group_policies") \cup Indices("delete_group_policy")
\* delete-group answered "must detach all policies first" and the policy calls
\* that followed all succeeded
Escalated ==
    /\ IsGroup /\ GroupDeletes # {}
    /\ MustDetach(calls[FirstDelete].res)
    /\ \A i \in PolicyCalls : calls[i].res = Ok
ManagedMessage == "All inline polices have been removed. Managed Polices"

\* C16: when delete-group fails with "must detach all policies first", every
\* inline policy of the group is deleted and delete-group is issued once more,
\* after the policy deletions; when that retry fails with the same fault the
\* run fails with the managed-policy message, and no third delete is issued.
C16_GroupDeleteEscalation ==
    Escalated =>
        /\ Cardinality(GroupDeletes) <= 2
        /\ Cardinality(GroupDeletes) = 2 =>
            /\ {calls[i].arg : i \in Indices("delete_group_policy")}
                    = start.grps[params.name].inline
            /\ \A i \in Indices("delete_group_policy") :
                    FirstDelete < i /\ i < LastDelete
            /\ Done
            /\ MustDetach(calls[LastDelete].res)
                    => outcome.kind = "fail" /\ outcome.msg = ManagedMessage
            /\ calls[LastDelete].res = Ok => Exited /\ ~grps[params.name].exists
        /\ Done => Cardinality(GroupDeletes) = 2

C16_Witness ==
    /\ Escalated /\ Done
    /\ Cardinality(start.grps[params.name].inline) = MaxPolicies
    /\ Count("delete_group_policy") = MaxPolicies
    /\ MustDetach(calls[LastDelete].res)
    /\ outcome.msg = ManagedMessage

\* a retry that succeeded after the inline policies were deleted
Remediated ==
    /\ Escalated /\ Done /\ Cardinality(GroupDeletes) = 2
    /\ calls[LastDelete].res = Ok

-----------------------------------------------------------------------------
(* C17 *)

\* state=update on a user listed under neither name nor new_name, or on a
\* group that is not listed
UpdateOnMissing ==
    /\ params.state = "update"
    /\ \/ /\ IsUser
          /\ ~start.users[params.name].exists
          /\ params.new_name \in UserNames => ~start.users[params.new_name].exists
       \/ IsGroup /\ ~start.grps[params.name].exists

\* C17: state=update on a user or a group that does not exist issues no
\* mutating provider call, leaves the account as it was and ends in a
\* failure; when the run gets past the parameter checks the failure is the
\* structured one that says the resource does not exist.
C17_UpdateOnMissing ==
    UpdateOnMissing =>
        /\ \A i \in 1..Len(calls) : calls[i].op \notin MutatingOps
        /\ users = start.users /\ grps = start.grps
        /\ roles = start.roles /\ profs = start.profs
        /\ Done => Failed
        /\ (Done /\ Len(calls) = SnapshotCalls)
            => /\ outcome.kind = "fail"
               /\ outcome.msg = IF IsUser THEN "The user does not exit. No update made."
                                ELSE "Update Failed. Group doesn't seem to exit!"

C17_Witness ==
    /\ Done /\ UpdateOnMissing /\ IsUser
    /\ params.new_name \in UserNames
    /\ Len(calls) = SnapshotCalls
    /\ outcome.msg = "The user does not exit. No update made."

-----------------------------------------------------------------------------
(* C18 *)

\* a group or a role request that carries a parameter only a user may carry
UserOnlyParameter ==
    /\ IsGroup \/ IsRole
    /\ \/ params.password # None
       \/ params.access_key_state # None
       \/ Len(params.access_key_ids) > 0

\* C18: when the kind is group or role and a password, an access_key_state or
\* an access_key_ids list is supplied, the run fails and issues no provider
\* call, the inventory fetch included.
C18_KindValidation ==
    UserOnlyParameter => (calls = << >> /\ (Done => Failed))

-----------------------------------------------------------------------------
(* C19 *)

NeedsKeyIds == params.access_key_state \in {"active", "inactive"}
NoKeyIdMessage == "At least one access key has to be defined"

\* C19: access_key_state active or inactive with no access_key_ids ends in the
\* structured failure "At least one access key has to be defined" before any
\* provider call; with an access-key id supplied the validation passes and the
\* run goes on to the inventory.
C19_ActiveNeedsKeyIds ==
    (IsUser /\ NeedsKeyIds /\ Done) =>
        IF Len(params.access_key_ids) = 0
        THEN calls = << >> /\ outcome.kind = "fail" /\ outcome.msg = NoKeyIdMessage
        ELSE Len(calls) > 0

-----------------------------------------------------------------------------
(* C20 *)

StartGroup == start.grps[params.name]
GroupUpdate ==
    /\ IsGroup /\ params.state \in {"present", "update"}
    /\ params.password = None /\ params.access_key_state = None
    /\ StartGroup.exists
PathDiffers == params.new_path # None /\ params.new_path # StartGroup.path
NameDiffers == params.new_name # None /\ params.new_name # params.name
GroupUpdates == Indices("update_group")
PathUpdates == {i \in GroupUpdates : calls[i].arg = None}
NameUpdates == {i \in GroupUpdates : calls[i].arg # None}

\* C20 as stated: for an existing group a path update is issued iff new_path is
\* given and differs from the current path, a rename iff new_name is given and
\* differs from the name, and a change of both is applied in one update call;
\* changed is true iff an update call was issued, and the outcome reports the
\* path fetched before the update as the old path, and the new path.
C20_OneUpdateCall ==
    (Done /\ GroupUpdate /\ NoTransient) =>
        /\ Cardinality(GroupUpdates) = IF PathDiffers \/ NameDiffers THEN 1 ELSE 0
        /\ \A i \in GroupUpdates :
            /\ calls[i].arg = (IF NameDiffers THEN params.new_name ELSE None)
            /\ PathDiffers => calls[i].arg2 = params.new_path
        /\ Exited =>
            /\ outcome.changed = B(GroupUpdates # {})
            /\ params.new_path # None =>
                /\ outcome.data.old_path = StartGroup.path
                /\ outcome.data.new_group_path = params.new_path

\* C20, amended: for an existing group a path-only update is issued iff
\* new_path is given and differs from the current path, and a rename iff
\* new_name is given and differs from the name; when both change the path
\* update comes first and the rename, which carries new_path again, second:
\* two update calls.  changed is true iff an update call was issued, and the
\* outcome reports the path fetched before the update as the old path, and
\* the new path.
C20_GroupUpdateCalls ==
    (Done /\ GroupUpdate /\ NoTransient) =>
        /\ Cardinality(PathUpdates) = IF PathDiffers THEN 1 ELSE 0
        /\ Cardinality(NameUpdates) = IF NameDiffers THEN 1 ELSE 0
        /\ \A i \in PathUpdates : \A j \in NameUpdates : i < j
        /\ \A j \in NameUpdates : calls[j].arg = params.new_name /\ calls[j].arg2 = params.new_path
        /\ Exited =>
            /\ outcome.changed = B(GroupUpdates # {})
            /\ params.new_path # None =>
                /\ outcome.data.old_path = StartGroup.path
                /\ outcome.data.new_group_path = params.new_path

C20_Witness ==
    /\ Done /\ GroupUpdate /\ NoTransient /\ Exited
    /\ PathDiffers /\ NameDiffers
    /\ Cardinality(PathUpdates) = 1 /\ Cardinality(NameUpdates) = 1
    /\ outcome.data.old_path = StartGroup.path

-----------------------------------------------------------------------------
(* C21 *)

UserUpdate ==
    /\ IsUser /\ params.state \in {"present", "update"}
    /\ StartUser.exists
\* the request asks for the name and the path the user already has
NothingToRename ==
    /\ UserUpdate /\ params.path = StartUser.path
    /\ \/ params.new_name = None /\ params.new_path = StartUser.path
       \/ params.new_name = params.name /\ params.new_path = None
NoOtherChange ==
    /\ params.password = None /\ params.access_key_state = None
    /\ Len(params.access_key_ids) = 0 /\ Len(params.groups) = 0

\* C21: in a user update the update-user call is issued only when the new name
\* differs from the user's name or the new path from the user's path; a
\* request that gives only a new_path equal to the current path, or only a
\* new_name equal to the current name, issues no update-user call and, with
\* nothing else to change, reports changed=false.
C21_RenameOnlyWhenDifferent ==
    /\ UserUpdate =>
        \A i \in Indices("update_user") :
            \/ calls[i].arg \notin {None, calls[i].who}
            \/ calls[i].arg2 \notin {None, start.users[calls[i].who].path}
    /\ NothingToRename =>
        /\ Count("update_user") = 0
        /\ (Done /\ NoTransient /\ NoOtherChange)
            => Exited /\ outcome.changed = PyFalse

-----------------------------------------------------------------------------
(* C22 *)

RoleAbsent ==
    /\ IsRole /\ params.state = "absent"
    /\ params.password = None /\ params.access_key_state = None
    /\ start.roles[params.name].exists
RoleDeletes == Indices("delete_role")
Detaches == Indices("remove_role_from_instance_profile")
ProfileDeletes == Indices("delete_instance_profile")

\* C22: when the role is in the role inventory, the role is detached from every
\* instance profile attached to it before the first delete-role call, an
\* instance profile named like the role is deleted only after a delete-role
\* call succeeded, and the role list the run returns is fetched after all
\* these calls.
C22_RoleAbsentOrdering ==
    RoleAbsent =>
        /\ \A i \in RoleDeletes :
            /\ \A j \in Detaches : j < i /\ calls[j].res = Ok
            /\ {calls[j].arg : j \in Detaches} = start.roles[params.name].profiles
        /\ \A j \in ProfileDeletes : \E i \in OkIndices("delete_role") : i < j
        /\ (Done /\ Exited) =>
            /\ calls[Len(calls)].op = "list_roles"
            /\ Indices("list_roles") = {SnapshotCalls - 1, Len(calls)}
            /\ outcome.data.roles = ExistingRoles
            /\ params.name \notin ExistingRoles

C22_Witness ==
    /\ RoleAbsent /\ Done /\ Exited
    /\ Cardinality(start.roles[params.name].profiles) = 2
    /\ Cardinality(Detaches) = 2
    /\ OkIndices("delete_instance_profile") # {}

-----------------------------------------------------------------------------
(* C23 *)

LoginWrites == Indices("update_login_profile") \cup Indices("create_login_profile")
OnCreate == IsUser /\ params.update_password = "on_create" /\ params.password # None
ListedAtStart ==
    \/ start.users[params.name].exists
    \/ params.new_name \in UserNames /\ start.users[params.new_name].exists

\* C23: with update_password=on_create, no login-credential update or create
\* call is issued for a user that already exists, whatever the password; on
\* the path that creates the user the password is applied, by one
\* create-login-profile call that follows the create-user call.
C23_PasswordOnCreate ==
    OnCreate =>
        /\ ListedAtStart => LoginWrites = {}
        /\ Did("create_user") =>
            /\ Indices("update_login_profile") = {}
            /\ \A i \in LoginWrites : \E j \in OkIndices("create_user") : j < i
            /\ (Done /\ Exited) =>
                /\ Cardinality(OkIndices("create_login_profile")) = 1
                /\ users[params.name].login

C23_Witness ==
    /\ OnCreate /\ Done /\ Exited /\ NoTransient
    /\ StartUser.exists /\ ~StartUser.login
    /\ params.state = "present" /\ params.password = "good"
    /\ LoginWrites = {}

\* the password of an on_create request, set while the user is created
PasswordSetOnCreation ==
    /\ OnCreate /\ Done /\ Exited
    /\ Did("create_user") /\ Did("create_login_profile")

-----------------------------------------------------------------------------
(* C24 *)

\* a request of kind, state and names only
PlainRequest ==
    /\ params.password = None /\ params.access_key_state = None
    /\ Len(params.access_key_ids) = 0 /\ Len(params.groups) = 0

\* C24: for every combination of kind, state, existence of the resource and
\* presence of new_name, a run that meets no provider failure ends in a
\* structured success or a structured failure; it never falls through the
\* branches of main without reporting one.
C24_OneOutcome ==
    (Done /\ PlainRequest /\ NoTransient) => outcome.kind \in {"exit", "fail"}

-----------------------------------------------------------------------------
(* C25 *)

\* C25: in a successful outcome changed is true (or a value the caller reads as
\* true) iff a mutating provider call of the run succeeded: not true for a user
\* deletion that issued no delete-user call, not false after an instance
\* profile was deleted.
C25_ChangedTruthful ==
    (Done /\ Exited) =>
        /\ Truthy(outcome.changed) = (Committed # {})
        /\ (IsUser /\ params.state = "absent" /\ Truthy(outcome.changed))
            => Did("delete_user")
        /\ Did("delete_instance_profile") => Truthy(outcome.changed)

-----------------------------------------------------------------------------
(* C26 *)

\* C26: when an existing group is deleted successfully, the outcome's changed
\* is the boolean true and its delete_group is the name of the deleted group.
C26_GroupAbsentOutcome ==
    (Done /\ Exited /\ IsGroup /\ params.state = "absent" /\ Did("delete_group"))
        => /\ outcome.changed = PyTrue
           /\ outcome.data.delete_group = params.name

\* main fell through every branch: kind user, state present, the user in no
\* inventory list, new_name supplied
FellThrough == Done /\ outcome.kind = "nothing"

\* a user deletion reported as changed although no delete-user call was issued
DeletedNothing ==
    /\ Done /\ Exited /\ IsUser /\ params.state = "absent"
    /\ outcome.changed = PyTrue /\ Count("delete_user") = 0 /\ Committed = {}

====
